---------------------------- MODULE Spec2Model ----------------------------
(***************************************************************************)
(* A model of simple-redis: the RESP codec (src/resp), the command layer   *)
(* (src/cmd), the backend (src/backend) and the per-connection pipeline    *)
(* (src/network.rs).                                                       *)
(*                                                                         *)
(* Bytes are one-character strings; a buffer (BytesMut, Vec<u8>) is a      *)
(* sequence of bytes.  Indices taken from the Rust code are 0-based, as in *)
(* the source; Slice and Advance convert them.                             *)
(***************************************************************************)
EXTENDS Integers, Sequences, FiniteSets, TLC

\* ------------------------------------------------------------------ bytes

CR == "\r"
LF == "\n"
CRLF == <<CR, LF>>

\* pub const CRLF_LEN: usize = 2;
CRLF_LEN == 2

DigitChars == <<"0", "1", "2", "3", "4", "5", "6", "7", "8", "9">>

IsDigit(b) == \E k \in 1..10 : DigitChars[k] = b

DigitVal(b) == (CHOOSE k \in 1..10 : DigitChars[k] = b) - 1

\* Rust's b[from..to] and buf.advance(n) / buf.split_to(n), 0-based.
Slice(b, from, to) == SubSeq(b, from + 1, to)

Advance(b, n) == SubSeq(b, n + 1, Len(b))

StartsWith(b, p) == Len(b) >= Len(p) /\ SubSeq(b, 1, Len(p)) = p

\* format!("{}", n) for an unsigned n.
RECURSIVE FmtNat(_)
FmtNat(n) == IF n < 10 THEN <<DigitChars[n + 1]>>
             ELSE FmtNat(n \div 10) \o <<DigitChars[(n % 10) + 1]>>

\* format!("{}", i) for a signed integer: a '-' for negatives, no '+'.
FmtInt(i) == IF i < 0 THEN <<"-">> \o FmtNat(0 - i) ELSE FmtNat(i)

RECURSIVE DigitsVal(_)
DigitsVal(ds) == IF ds = <<>> THEN 0
                 ELSE 10 * DigitsVal(SubSeq(ds, 1, Len(ds) - 1)) + DigitVal(ds[Len(ds)])

AllDigits(ds) == \A k \in 1..Len(ds) : IsDigit(ds[k])

\* str::parse::<i64>() / ::<isize>(): an optional sign, then one or more
\* digits.  The result is [ok, val].
ParseInt(s) ==
    LET signed == Len(s) > 0 /\ s[1] \in {"+", "-"}
        ds     == IF signed THEN Advance(s, 1) ELSE s
    IN  IF ds = <<>> \/ ~AllDigits(ds) THEN [ok |-> FALSE, val |-> 0]
        ELSE [ok |-> TRUE,
              val |-> IF signed /\ s[1] = "-" THEN 0 - DigitsVal(ds) ELSE DigitsVal(ds)]


\* String::from_utf8_lossy: a byte that is not valid UTF-8 (here the single
\* byte 0xFF) becomes U+FFFD, whose UTF-8 form is EF BF BD.
RECURSIVE Utf8Lossy(_)
Utf8Lossy(b) ==
    IF b = <<>> THEN <<>>
    ELSE (IF b[1] = "xFF" THEN <<"xEF", "xBF", "xBD">> ELSE <<b[1]>>)
         \o Utf8Lossy(Advance(b, 1))

\* The first 1-based position of a byte of set S in s, 0 when there is none.
FirstIndex(s, S) ==
    IF \E k \in 1..Len(s) : s[k] \in S
    THEN CHOOSE k \in 1..Len(s) : s[k] \in S /\ \A j \in 1..(k - 1) : s[j] \notin S
    ELSE 0

RECURSIVE Zeros(_)
Zeros(n) == IF n <= 0 THEN <<>> ELSE <<"0">> \o Zeros(n - 1)

\* Byte order of the bytes the model uses (their ASCII codes), for the
\* ordering of BTreeMap<String, _> keys.
ByteCode(b) ==
    CASE b = LF  -> 10
      [] b = CR  -> 13
      [] b = "#" -> 35
      [] b = "$" -> 36
      [] b = "%" -> 37
      [] b = "*" -> 42
      [] b = "+" -> 43
      [] b = "," -> 44
      [] b = "-" -> 45
      [] b = "." -> 46
      [] IsDigit(b) -> 48 + DigitVal(b)
      [] b = ":" -> 58
      [] b = "_" -> 95
      [] b = "~" -> 126
      [] b = "xEF" -> 239
      [] b = "xBF" -> 191
      [] b = "xBD" -> 189
      [] b = "xFF" -> 255
      [] b \in {"A", "B", "C", "D", "E", "F", "G", "H", "I", "J", "K", "L", "M",
                "N", "O", "P", "Q", "R", "S", "T", "U", "V", "W", "X", "Y", "Z"} ->
            64 + (CHOOSE k \in 1..26 :
                    <<"A", "B", "C", "D", "E", "F", "G", "H", "I", "J", "K", "L", "M",
                      "N", "O", "P", "Q", "R", "S", "T", "U", "V", "W", "X", "Y", "Z">>[k] = b)
      [] OTHER -> 96 + (CHOOSE k \in 1..26 :
                    <<"a", "b", "c", "d", "e", "f", "g", "h", "i", "j", "k", "l", "m",
                      "n", "o", "p", "q", "r", "s", "t", "u", "v", "w", "x", "y", "z">>[k] = b)

\* Ord for String / Vec<u8>: lexicographic on bytes.
RECURSIVE BytesLess(_, _)
BytesLess(a, b) ==
    IF b = <<>> THEN FALSE
    ELSE IF a = <<>> THEN TRUE
    ELSE IF a[1] = b[1] THEN BytesLess(Advance(a, 1), Advance(b, 1))
    ELSE ByteCode(a[1]) < ByteCode(b[1])

\* ----------------------------------------------------------------- frames
\* enum RespFrame.  Every frame is a record with the same fields, the ones a
\* variant does not use at their default:
\*   t      the variant
\*   s      String / Vec<u8> payload (SimpleString, Error, BulkString)
\*   i      i64 (Integer), 0/1 (Boolean), decimal mantissa (Double)
\*   e      decimal exponent (Double): the value is i * 10^e
\*   null   BulkString(None), RespArray(None)
\*   keys   the keys of a RespMap, ascending
\*   items  the frames of an Array or Set, the values of a Map

Frame(t, s, i, e, null, keys, items) ==
    [t |-> t, s |-> s, i |-> i, e |-> e, null |-> null, keys |-> keys, items |-> items]

SimpleStringF(s) == Frame("SimpleString", s, 0, 0, FALSE, <<>>, <<>>)
ErrorF(s)        == Frame("Error", s, 0, 0, FALSE, <<>>, <<>>)
IntegerF(i)      == Frame("Integer", <<>>, i, 0, FALSE, <<>>, <<>>)
BulkStringF(s)   == Frame("BulkString", s, 0, 0, FALSE, <<>>, <<>>)
BulkNullF        == Frame("BulkString", <<>>, 0, 0, TRUE, <<>>, <<>>)
NullBulkStringF  == Frame("NullBulkString", <<>>, 0, 0, FALSE, <<>>, <<>>)
ArrayF(items)    == Frame("Array", <<>>, 0, 0, FALSE, <<>>, items)
ArrayNullF       == Frame("Array", <<>>, 0, 0, TRUE, <<>>, <<>>)
NullArrayF       == Frame("NullArray", <<>>, 0, 0, FALSE, <<>>, <<>>)
NullF            == Frame("Null", <<>>, 0, 0, FALSE, <<>>, <<>>)
BooleanF(b)      == Frame("Boolean", <<>>, IF b THEN 1 ELSE 0, 0, FALSE, <<>>, <<>>)
DoubleF(m, e)    == Frame("Double", <<>>, m, e, FALSE, <<>>, <<>>)
MapF(keys, vals) == Frame("Map", <<>>, 0, 0, FALSE, keys, vals)
SetF(items)      == Frame("Set", <<>>, 0, 0, FALSE, <<>>, items)

\* The frame slot of a result that carries no frame.
NoFrame == Frame("None", <<>>, 0, 0, FALSE, <<>>, <<>>)

Abs(i) == IF i < 0 THEN 0 - i ELSE i


\* ----------------------------------------------------------------- encode

\* f64's Display ("{}") for the magnitude |m| * 10^e: plain decimal digits,
\* no exponent, no ".0" for an integral value.
FmtDecimal(m, e) ==
    LET ds == FmtNat(Abs(m))
        k  == Len(ds)
        p  == 0 - e
    IN  IF e >= 0 THEN (IF m = 0 THEN ds ELSE ds \o Zeros(e))
        ELSE IF p < k THEN SubSeq(ds, 1, k - p) \o <<".">> \o SubSeq(ds, k - p + 1, k)
        ELSE <<"0", ".">> \o Zeros(p - k) \o ds

\* The decimal exponent of |m| * 10^e in scientific form (m # 0).
SciExp(m, e) == e + Len(FmtNat(Abs(m))) - 1

\* f64's LowerExp ("{:e}") for the magnitude |m| * 10^e.
FmtLowerExp(m, e) ==
    LET ds == FmtNat(Abs(m))
        k  == Len(ds)
    IN  IF m = 0 THEN <<"0", "e", "0">>
        ELSE <<ds[1]>> \o (IF k > 1 THEN <<".">> \o SubSeq(ds, 2, k) ELSE <<>>)
             \o <<"e">> \o FmtInt(SciExp(m, e))

\* self.abs() > 1e+8 || self.abs() < 1e-8, for a normalised m * 10^e.
OutsideWindow(m, e) ==
    \/ m = 0
    \/ SciExp(m, e) > 8
    \/ SciExp(m, e) = 8 /\ Abs(m) # 1
    \/ SciExp(m, e) < 0 - 8

\* impl RespEncode for f64
EncodeDouble(m, e) ==
    IF OutsideWindow(m, e)
    THEN <<",">> \o (IF m < 0 THEN <<"-">> ELSE <<"+">>) \o FmtLowerExp(m, e) \o CRLF
    ELSE <<",">> \o (IF m < 0 THEN <<"-">> ELSE <<"+">>) \o FmtDecimal(m, e) \o CRLF

\* A faulty integer encoder that leaves out the plus sign.
EncodeInteger_Bare(i) == <<":">> \o FmtInt(i) \o CRLF

\* impl RespEncode for i64
EncodeInteger(i) ==
    <<":">> \o (IF i < 0 THEN <<>> ELSE <<"+">>) \o FmtInt(i) \o CRLF

\* impl RespEncode for SimpleString / SimpleError
EncodeSimpleString(s) == <<"+">> \o s \o CRLF

EncodeSimpleError(s) == <<"-">> \o s \o CRLF

\* impl RespEncode for BulkString (an Option<Vec<u8>>)
EncodeBulkString(f) ==
    IF f.null THEN <<"$", "-", "1">> \o CRLF
    ELSE <<"$">> \o FmtNat(Len(f.s)) \o CRLF \o f.s \o CRLF

\* impl RespEncode for bool
EncodeBool(i) == <<"#", IF i = 1 THEN "t" ELSE "f">> \o CRLF

\* RespFrame::encode (enum_dispatch) with the aggregates' encoders.
RECURSIVE Encode(_), EncodeAll(_), EncodeEntries(_, _)
Encode(f) ==
    CASE f.t = "SimpleString"   -> EncodeSimpleString(f.s)
      [] f.t = "Error"          -> EncodeSimpleError(f.s)
      [] f.t = "Integer"        -> EncodeInteger(f.i)
      [] f.t = "BulkString"     -> EncodeBulkString(f)
      [] f.t = "NullBulkString" -> <<"$", "-", "1">> \o CRLF
      [] f.t = "Array"          ->
            IF f.null THEN <<"*", "-", "1">> \o CRLF
            ELSE <<"*">> \o FmtNat(Len(f.items)) \o CRLF \o EncodeAll(f.items)
      [] f.t = "NullArray"      -> <<"*", "-", "1">> \o CRLF
      [] f.t = "Null"           -> <<"_">> \o CRLF
      [] f.t = "Boolean"        -> EncodeBool(f.i)
      [] f.t = "Double"         -> EncodeDouble(f.i, f.e)
      [] f.t = "Map"            ->
            <<"%">> \o FmtNat(Len(f.keys)) \o CRLF \o EncodeEntries(f.keys, f.items)
      [] f.t = "Set"            ->
            <<"~">> \o FmtNat(Len(f.items)) \o CRLF \o EncodeAll(f.items)

EncodeAll(fs) ==
    IF fs = <<>> THEN <<>> ELSE Encode(fs[1]) \o EncodeAll(Advance(fs, 1))

EncodeEntries(ks, vs) ==
    IF ks = <<>> THEN <<>>
    ELSE EncodeSimpleString(ks[1]) \o Encode(vs[1])
         \o EncodeEntries(Advance(ks, 1), Advance(vs, 1))


\* ----------------------------------------------------------------- decode
\* A decode call on &mut BytesMut is modelled by its result and the buffer it
\* leaves: [r, f, buf], r being "Ok" or the RespError variant.

Res(r, f, buf) == [r |-> r, f |-> f, buf |-> buf]

RespErrors == {"NotComplete", "InvalidFrame", "InvalidFrameType",
               "InvalidFrameLength", "ParseIntError", "ParseFloatError"}

\* pub fn extract_fixed_data(buf: &mut BytesMut, expect: &str)
extract_fixed_data(buf, expect) ==
    IF Len(buf) < Len(expect) THEN [r |-> "NotComplete", buf |-> buf]
    ELSE IF ~StartsWith(buf, expect) THEN [r |-> "InvalidFrameType", buf |-> buf]
    ELSE [r |-> "Ok", buf |-> Advance(buf, Len(expect))]

\* fn find_crlf(buf, nth) -> Option<usize>: the loop over the bytes from
\* position i on, count CRLFs seen so far; -1 is None.
RECURSIVE find_crlf_from(_, _, _, _)
find_crlf_from(buf, i, count, nth) ==
    IF i >= Len(buf) THEN 0 - 1
    ELSE IF buf[i + 1] = CR /\ i + 1 < Len(buf) /\ buf[i + 2] = LF
         THEN (IF count + 1 = nth THEN i ELSE find_crlf_from(buf, i + 1, count + 1, nth))
         ELSE find_crlf_from(buf, i + 1, count, nth)

find_crlf(buf, nth) == find_crlf_from(buf, 0, 0, nth)

\* pub fn extract_simple_frame_data(buf, prefix, nth_crlf) -> Result<usize, _>
extract_simple_frame_data(buf, prefix, nth_crlf) ==
    LET end == find_crlf(buf, nth_crlf)
    IN  IF Len(buf) < 3 THEN [r |-> "NotComplete", end |-> 0]
        ELSE IF ~StartsWith(buf, prefix) THEN [r |-> "InvalidFrameType", end |-> 0]
        ELSE IF end = 0 - 1 THEN [r |-> "NotComplete", end |-> 0]
        ELSE IF end = 0 THEN [r |-> "NotComplete", end |-> 0]
        ELSE [r |-> "Ok", end |-> end]

\* pub fn parse_length(buf, prefix) -> Result<(usize, isize), _>
parse_length(buf, prefix) ==
    LET x == extract_simple_frame_data(buf, prefix, 1)
        n == ParseInt(Utf8Lossy(Slice(buf, Len(prefix), x.end)))
    IN  IF x.r # "Ok" THEN [r |-> x.r, end |-> 0, len |-> 0]
        ELSE IF ~n.ok THEN [r |-> "ParseIntError", end |-> 0, len |-> 0]
        ELSE [r |-> "Ok", end |-> x.end, len |-> n.val]

\* The tail of the simple decoders: split_to(end + CRLF_LEN) and the lossy
\* text between the prefix and the CRLF.
SimpleText(buf, end) == Utf8Lossy(Slice(buf, 1, end))

\* impl RespDecode for SimpleString
DecodeSimpleString(buf) ==
    LET x == extract_simple_frame_data(buf, <<"+">>, 1)
    IN  IF x.r # "Ok" THEN Res(x.r, NoFrame, buf)
        ELSE Res("Ok", SimpleStringF(SimpleText(buf, x.end)), Advance(buf, x.end + CRLF_LEN))

\* impl RespDecode for SimpleError
DecodeSimpleError(buf) ==
    LET x == extract_simple_frame_data(buf, <<"-">>, 1)
    IN  IF x.r # "Ok" THEN Res(x.r, NoFrame, buf)
        ELSE Res("Ok", ErrorF(SimpleText(buf, x.end)), Advance(buf, x.end + CRLF_LEN))

\* impl RespDecode for i64: the buffer is split before the text is parsed.
DecodeInteger(buf) ==
    LET x == extract_simple_frame_data(buf, <<":">>, 1)
        n == ParseInt(SimpleText(buf, x.end))
    IN  IF x.r # "Ok" THEN Res(x.r, NoFrame, buf)
        ELSE IF ~n.ok THEN Res("ParseIntError", NoFrame, Advance(buf, x.end + CRLF_LEN))
        ELSE Res("Ok", IntegerF(n.val), Advance(buf, x.end + CRLF_LEN))

\* impl RespDecode for RespNull
DecodeNull(buf) ==
    LET x == extract_fixed_data(buf, <<"_">> \o CRLF)
    IN  IF x.r = "Ok" THEN Res("Ok", NullF, x.buf) ELSE Res(x.r, NoFrame, buf)

\* impl RespDecode for RespNullBulkString
DecodeNullBulkString(buf) ==
    LET x == extract_fixed_data(buf, <<"$", "-", "1">> \o CRLF)
    IN  IF x.r = "Ok" THEN Res("Ok", NullBulkStringF, x.buf) ELSE Res(x.r, NoFrame, buf)

\* A faulty decoder that takes *-1 for the unitary Null.
DecodeNullArray_AsNull(buf) ==
    LET x == extract_fixed_data(buf, <<"*", "-", "1">> \o CRLF)
    IN  IF x.r = "Ok" THEN Res("Ok", NullF, x.buf) ELSE Res(x.r, NoFrame, buf)

\* impl RespDecode for RespNullArray
DecodeNullArray(buf) ==
    LET x == extract_fixed_data(buf, <<"*", "-", "1">> \o CRLF)
    IN  IF x.r = "Ok" THEN Res("Ok", NullArrayF, x.buf) ELSE Res(x.r, NoFrame, buf)

\* impl RespDecode for bool: any failure of both patterns, a short buffer
\* included, is InvalidFrameType.
DecodeBool(buf) ==
    LET t == extract_fixed_data(buf, <<"#", "t">> \o CRLF)
        f == extract_fixed_data(buf, <<"#", "f">> \o CRLF)
    IN  IF t.r = "Ok" THEN Res("Ok", BooleanF(TRUE), t.buf)
        ELSE IF f.r = "Ok" THEN Res("Ok", BooleanF(FALSE), f.buf)
        ELSE Res("InvalidFrameType", NoFrame, buf)


\* Strip the trailing zeros of a decimal mantissa: the normal form of a
\* double m * 10^e (m = 0 has e = 0).
RECURSIVE Normalize(_, _)
Normalize(m, e) ==
    IF m = 0 THEN [m |-> 0, e |-> 0]
    ELSE IF m % 10 = 0 THEN Normalize(m \div 10, e + 1)
    ELSE [m |-> m, e |-> e]

\* str::parse::<f64>() on decimal text: [sign] digits [. digits] [e [sign]
\* digits], at least one mantissa digit.  ("inf", "nan" and "infinity" are
\* accepted by Rust as well; the model's byte alphabet cannot spell them.)
ParseFloat(s) ==
    LET signed == Len(s) > 0 /\ s[1] \in {"+", "-"}
        neg    == signed /\ s[1] = "-"
        body   == IF signed THEN Advance(s, 1) ELSE s
        ePos   == FirstIndex(body, {"e", "E"})
        mant   == IF ePos = 0 THEN body ELSE SubSeq(body, 1, ePos - 1)
        expo   == IF ePos = 0 THEN [ok |-> TRUE, val |-> 0]
                  ELSE ParseInt(SubSeq(body, ePos + 1, Len(body)))
        dot    == FirstIndex(mant, {"."})
        ip     == IF dot = 0 THEN mant ELSE SubSeq(mant, 1, dot - 1)
        fp     == IF dot = 0 THEN <<>> ELSE SubSeq(mant, dot + 1, Len(mant))
        n      == Normalize(DigitsVal(ip \o fp), expo.val - Len(fp))
    IN  IF ~expo.ok \/ ~AllDigits(ip) \/ ~AllDigits(fp) \/ Len(ip) + Len(fp) = 0
        THEN [ok |-> FALSE, m |-> 0, e |-> 0]
        ELSE [ok |-> TRUE, m |-> IF neg THEN 0 - n.m ELSE n.m, e |-> n.e]

\* impl RespDecode for f64
DecodeDouble(buf) ==
    LET x == extract_simple_frame_data(buf, <<",">>, 1)
        d == ParseFloat(SimpleText(buf, x.end))
    IN  IF x.r # "Ok" THEN Res(x.r, NoFrame, buf)
        ELSE IF ~d.ok THEN Res("ParseFloatError", NoFrame, Advance(buf, x.end + CRLF_LEN))
        ELSE Res("Ok", DoubleF(d.m, d.e), Advance(buf, x.end + CRLF_LEN))

\* impl RespDecode for BulkString.  The frame is cut off the buffer at the
\* second CRLF (split_to) before its length is parsed and compared, so the
\* errors past that point leave the buffer without those bytes.
DecodeBulkString(buf) ==
    LET nul  == extract_fixed_data(buf, <<"$", "-", "1">> \o CRLF)
        x    == extract_simple_frame_data(buf, <<"$">>, 2)
        data == Slice(buf, 0, x.end + CRLF_LEN)
        rest == Advance(buf, x.end + CRLF_LEN)
        pl   == parse_length(data, <<"$">>)
        body == Advance(data, pl.end + CRLF_LEN)
    IN  IF nul.r = "Ok" THEN Res("Ok", BulkNullF, nul.buf)
        ELSE IF x.r # "Ok" THEN Res(x.r, NoFrame, buf)
        ELSE IF pl.r # "Ok" THEN Res(pl.r, NoFrame, rest)
        ELSE IF pl.len < 0 THEN Res("InvalidFrame", NoFrame, rest)
        ELSE IF Len(body) # pl.len + 2 THEN Res("NotComplete", NoFrame, rest)
        ELSE Res("Ok", BulkStringF(Slice(body, 0, pl.len)), rest)

\* A faulty insert that keeps the entries in the order of their insertion.
MapInsert_Append(keys, vals, k, v) ==
    IF \E j \in 1..Len(keys) : keys[j] = k
    THEN [keys |-> keys,
          vals |-> [j \in 1..Len(keys) |-> IF keys[j] = k THEN v ELSE vals[j]]]
    ELSE [keys |-> Append(keys, k), vals |-> Append(vals, v)]

\* BTreeMap::insert on the (keys, values) of a RespMap: replace the value of
\* an equal key, else insert at the key's place in ascending order.
MapInsert(keys, vals, k, v) ==
    LET n   == Len(keys)
        pos == Cardinality({j \in 1..n : BytesLess(keys[j], k)})
    IN  IF \E j \in 1..n : keys[j] = k
        THEN [keys |-> keys,
              vals |-> [j \in 1..n |-> IF keys[j] = k THEN v ELSE vals[j]]]
        ELSE [keys |-> SubSeq(keys, 1, pos) \o <<k>> \o SubSeq(keys, pos + 1, n),
              vals |-> SubSeq(vals, 1, pos) \o <<v>> \o SubSeq(vals, pos + 1, n)]

\* RespFrame::decode and the aggregates' decoders.  DecodeFrames and
\* DecodeEntries are the `for _ in 0..len` loops over the cloned try_buf;
\* their [r, ..., buf] carries try_buf, which the caller stores into *buf
\* only when every child was decoded.
RECURSIVE Decode(_), DecodeArray(_), DecodeMap(_), DecodeSet(_)
RECURSIVE DecodeFrames(_, _, _), DecodeEntries(_, _, _, _)

DecodeFrames(try_buf, n, frames) ==
    IF n <= 0 THEN [r |-> "Ok", frames |-> frames, buf |-> try_buf]
    ELSE IF try_buf = <<>> THEN [r |-> "NotComplete", frames |-> <<>>, buf |-> try_buf]
    ELSE LET d == Decode(try_buf)
         IN  IF d.r # "Ok" THEN [r |-> d.r, frames |-> <<>>, buf |-> d.buf]
             ELSE DecodeFrames(d.buf, n - 1, Append(frames, d.f))

DecodeEntries(try_buf, n, keys, vals) ==
    IF n <= 0 THEN [r |-> "Ok", keys |-> keys, vals |-> vals, buf |-> try_buf]
    ELSE IF try_buf = <<>>
         THEN [r |-> "NotComplete", keys |-> <<>>, vals |-> <<>>, buf |-> try_buf]
    ELSE LET k == DecodeSimpleString(try_buf)
             v == Decode(k.buf)
             m == MapInsert(keys, vals, k.f.s, v.f)
         IN  IF k.r # "Ok" THEN [r |-> k.r, keys |-> <<>>, vals |-> <<>>, buf |-> k.buf]
             ELSE IF k.buf = <<>>
                  THEN [r |-> "NotComplete", keys |-> <<>>, vals |-> <<>>, buf |-> k.buf]
             ELSE IF v.r # "Ok" THEN [r |-> v.r, keys |-> <<>>, vals |-> <<>>, buf |-> v.buf]
             ELSE DecodeEntries(v.buf, n - 1, m.keys, m.vals)

\* impl RespDecode for RespArray
DecodeArray(buf) ==
    LET nul == extract_fixed_data(buf, <<"*", "-", "1">> \o CRLF)
        pl  == parse_length(buf, <<"*">>)
        fs  == DecodeFrames(Advance(buf, pl.end + CRLF_LEN), pl.len, <<>>)
    IN  IF nul.r = "Ok" THEN Res("Ok", ArrayNullF, nul.buf)
        ELSE IF pl.r # "Ok" THEN Res(pl.r, NoFrame, buf)
        ELSE IF pl.len < 0 THEN Res("InvalidFrame", NoFrame, buf)
        ELSE IF fs.r # "Ok" THEN Res(fs.r, NoFrame, buf)
        ELSE Res("Ok", ArrayF(fs.frames), fs.buf)

\* impl RespDecode for RespMap
DecodeMap(buf) ==
    LET pl == parse_length(buf, <<"%">>)
        es == DecodeEntries(Advance(buf, pl.end + CRLF_LEN), pl.len, <<>>, <<>>)
    IN  IF pl.r # "Ok" THEN Res(pl.r, NoFrame, buf)
        ELSE IF es.r # "Ok" THEN Res(es.r, NoFrame, buf)
        ELSE Res("Ok", MapF(es.keys, es.vals), es.buf)

\* impl RespDecode for RespSet
DecodeSet(buf) ==
    LET pl == parse_length(buf, <<"~">>)
        fs == DecodeFrames(Advance(buf, pl.end + CRLF_LEN), pl.len, <<>>)
    IN  IF pl.r # "Ok" THEN Res(pl.r, NoFrame, buf)
        ELSE IF fs.r # "Ok" THEN Res(fs.r, NoFrame, buf)
        ELSE Res("Ok", SetF(fs.frames), fs.buf)

\* impl RespDecode for RespFrame: dispatch on the first byte.
Decode(buf) ==
    IF buf = <<>> THEN Res("NotComplete", NoFrame, buf)
    ELSE CASE buf[1] = "+" -> DecodeSimpleString(buf)
           [] buf[1] = "-" -> DecodeSimpleError(buf)
           [] buf[1] = ":" -> DecodeInteger(buf)
           [] buf[1] = "$" ->
                LET n == DecodeNullBulkString(buf)
                IN  IF n.r = "Ok" THEN n ELSE DecodeBulkString(buf)
           [] buf[1] = "*" ->
                LET n == DecodeNullArray(buf)
                IN  IF n.r = "Ok" THEN n ELSE DecodeArray(buf)
           [] buf[1] = "_" -> DecodeNull(buf)
           [] buf[1] = "#" -> DecodeBool(buf)
           [] buf[1] = "," -> DecodeDouble(buf)
           [] buf[1] = "%" -> DecodeMap(buf)
           [] buf[1] = "~" -> DecodeSet(buf)
           [] OTHER -> Res("InvalidFrameType", NoFrame, buf)


\* ---------------------------------------------------------------- backend
\* BackendInner: map, hmap and hset are DashMaps keyed by String; each is a
\* function whose DOMAIN is the set of keys present.

Some(v) == [some |-> TRUE, v |-> v]

None == [some |-> FALSE, v |-> NoFrame]

\* DashMap::insert
Put(m, k, v) == [x \in (DOMAIN m) \cup {k} |-> IF x = k THEN v ELSE m[x]]

EmptyMap == [x \in {} |-> NoFrame]

\* Backend::get
Backend_get(m, key) == IF key \in DOMAIN m THEN Some(m[key]) ELSE None

\* A faulty Backend::set that keeps the value a key already has.
Backend_set_IfAbsent(m, key, value) == IF key \in DOMAIN m THEN m ELSE Put(m, key, value)

\* A faulty Backend::set that writes into the value a key already has.
Backend_set_Mix(m, key, value) ==
    IF key \in DOMAIN m THEN Put(m, key, BulkStringF(m[key].s \o value.s))
    ELSE Put(m, key, value)

\* Backend::set
Backend_set(m, key, value) == Put(m, key, value)

\* Backend::hget
Backend_hget(hm, key, field) ==
    IF key \in DOMAIN hm /\ field \in DOMAIN hm[key] THEN Some(hm[key][field]) ELSE None

\* A faulty Backend::hset that replaces the whole hash of the key.
Backend_hset_Replace(hm, key, field, value) == Put(hm, key, Put(EmptyMap, field, value))

\* A faulty hset that keeps the value a field already has.
Backend_hset_KeepFirst(hm, key, field, value) ==
    LET inner == IF key \in DOMAIN hm THEN hm[key] ELSE EmptyMap
    IN  IF field \in DOMAIN inner THEN hm ELSE Put(hm, key, Put(inner, field, value))

\* Backend::hset: entry(key).or_default(), then insert into the inner map.
Backend_hset(hm, key, field, value) ==
    LET inner == IF key \in DOMAIN hm THEN hm[key] ELSE EmptyMap
    IN  Put(hm, key, Put(inner, field, value))

\* Backend::hgetall: a clone of the inner map, or None.
Backend_hgetall(hm, key) ==
    IF key \in DOMAIN hm THEN [some |-> TRUE, v |-> hm[key]]
    ELSE [some |-> FALSE, v |-> EmptyMap]

\* A faulty Backend::sadd that counts a member that is already there.
Backend_sadd_CountAll(hs, key, member) ==
    LET inner == IF key \in DOMAIN hs THEN hs[key] ELSE {}
    IN  [ret |-> 1, hset |-> Put(hs, key, inner \cup {member})]

\* A faulty Backend::sadd that counts a member as new only when it makes
\* the set.
Backend_sadd_CountFirst(hs, key, member) ==
    LET inner == IF key \in DOMAIN hs THEN hs[key] ELSE {}
    IN  [ret |-> IF key \in DOMAIN hs THEN 0 ELSE 1, hset |-> Put(hs, key, inner \cup {member})]

\* A faulty Backend::sadd that takes out a member that is already there.
Backend_sadd_Toggle(hs, key, member) ==
    IF key \in DOMAIN hs /\ member \in hs[key]
    THEN [ret |-> 0, hset |-> Put(hs, key, hs[key] \ {member})]
    ELSE [ret |-> 1, hset |-> Put(hs, key, (IF key \in DOMAIN hs THEN hs[key] ELSE {}) \cup {member})]

\* A faulty Backend::sadd that stores the set anew, losing what other
\* callers inserted.
Backend_sadd_Overwrite(hs, key, member) ==
    IF key \in DOMAIN hs /\ member \in hs[key] THEN [ret |-> 0, hset |-> hs]
    ELSE [ret |-> 1, hset |-> Put(hs, key, {member})]

\* Backend::sadd: entry(key).or_default(); 0 when the member is there, else
\* insert and 1.  The result is the count and the new hset.
Backend_sadd(hs, key, member) ==
    LET inner == IF key \in DOMAIN hs THEN hs[key] ELSE {}
    IN  IF member \in inner THEN [ret |-> 0, hset |-> Put(hs, key, inner)]
        ELSE [ret |-> 1, hset |-> Put(hs, key, inner \cup {member})]

\* A faulty Backend::sismember that looks for the member in every set.
Backend_sismember_AnyKey(hs, key, member) == \E k \in DOMAIN hs : member \in hs[k]

\* Backend::sismember
Backend_sismember(hs, key, member) == key \in DOMAIN hs /\ member \in hs[key]

\* --------------------------------------------------------------- commands
\* enum Command: op is the variant, key / field / value its fields, list
\* the fields of HMGet or the members of SAdd; Echo's message is in key.

Cmd(op, key, field, list, value) ==
    [op |-> op, key |-> key, field |-> field, list |-> list, value |-> value]

NoCmd == Cmd("None", <<>>, <<>>, <<>>, NoFrame)

\* lazy_static RESP_OK
RESP_OK == SimpleStringF(<<"O", "K">>)

UpperChars == <<"A", "B", "C", "D", "E", "F", "G", "H", "I", "J", "K", "L", "M",
                "N", "O", "P", "Q", "R", "S", "T", "U", "V", "W", "X", "Y", "Z">>

LowerChars == <<"a", "b", "c", "d", "e", "f", "g", "h", "i", "j", "k", "l", "m",
                "n", "o", "p", "q", "r", "s", "t", "u", "v", "w", "x", "y", "z">>

\* A faulty lowercasing that leaves the bytes as they are.
to_ascii_lowercase_Identity(b) == b

\* <[u8]>::to_ascii_lowercase
to_ascii_lowercase(b) ==
    [k \in 1..Len(b) |->
        IF \E j \in 1..26 : UpperChars[j] = b[k]
        THEN LowerChars[CHOOSE j \in 1..26 : UpperChars[j] = b[k]]
        ELSE b[k]]

\* String::from_utf8 succeeds: of the model's bytes, 0xFF and the lone
\* continuation / lead bytes are not UTF-8.
ValidUtf8(b) == \A k \in 1..Len(b) : b[k] \notin {"xFF", "xEF", "xBF", "xBD"}

\* The pattern RespFrame::BulkString(BulkString(Some(_)))
IsBulkSome(f) == f.t = "BulkString" /\ ~f.null

\* A parse result: Ok(cmd) or Err(CommandError), the error being its
\* variant and its message.
CmdOk(cmd) == [ok |-> TRUE, cmd |-> cmd, err |-> "", msg |-> ""]

CmdErr(err, msg) == [ok |-> FALSE, cmd |-> NoCmd, err |-> err, msg |-> msg]

Utf8Err == CmdErr("Utf8Error", "invalid utf-8 sequence")

\* The message of validate_command / validate_dynamic_command's error.
ArityMsg == "wrong number of arguments"

\* validate_command_name: the first element is a non-null BulkString that
\* is name when lowercased.
validate_command_name(items, name) ==
    IF IsBulkSome(items[1]) /\ to_ascii_lowercase(items[1].s) = name
    THEN CmdOk(NoCmd)
    ELSE CmdErr("InvalidCommand", "Invalid command: expected name")

\* A faulty validate_command that accepts further arguments.
validate_command_AtLeast(items, name, expected_len) ==
    IF ~validate_command_name(items, name).ok THEN validate_command_name(items, name)
    ELSE IF Len(items) < expected_len + 1 THEN CmdErr("InvalidArgument", ArityMsg)
    ELSE CmdOk(NoCmd)

\* validate_command: the name, then exactly expected_len arguments after
\* the verb.
validate_command(items, name, expected_len) ==
    IF ~validate_command_name(items, name).ok THEN validate_command_name(items, name)
    ELSE IF Len(items) # expected_len + 1 THEN CmdErr("InvalidArgument", ArityMsg)
    ELSE CmdOk(NoCmd)

\* validate_dynamic_command: the name, then at least at_least arguments
\* after the verb.
validate_dynamic_command(items, name, at_least) ==
    IF ~validate_command_name(items, name).ok THEN validate_command_name(items, name)
    ELSE IF Len(items) < at_least + 1 THEN CmdErr("InvalidArgument", ArityMsg)
    ELSE CmdOk(NoCmd)

\* extract_args(value, start)
extract_args(items, start) == Advance(items, start)

\* The loop of HMGet::try_from / SAdd::try_from over the remaining
\* arguments: the first one that is not a non-null BulkString, or is not
\* UTF-8, decides the error.
RECURSIVE ParseStrings(_, _, _)
ParseStrings(args, acc, what) ==
    IF args = <<>> THEN [ok |-> TRUE, list |-> acc, err |-> "", msg |-> ""]
    ELSE IF ~IsBulkSome(args[1])
         THEN [ok |-> FALSE, list |-> <<>>, err |-> "InvalidArgument", msg |-> what]
    ELSE IF ~ValidUtf8(args[1].s)
         THEN [ok |-> FALSE, list |-> <<>>, err |-> "Utf8Error", msg |-> "invalid utf-8 sequence"]
    ELSE ParseStrings(Advance(args, 1), Append(acc, args[1].s), what)


\* impl TryFrom<RespArray> for Get
Get_try_from(items) ==
    LET args == extract_args(items, 1)
    IN  IF ~validate_command(items, <<"g", "e", "t">>, 1).ok
        THEN validate_command(items, <<"g", "e", "t">>, 1)
        ELSE IF ~IsBulkSome(args[1]) THEN CmdErr("InvalidArgument", "Invalid key")
        ELSE IF ~ValidUtf8(args[1].s) THEN Utf8Err
        ELSE CmdOk(Cmd("Get", args[1].s, <<>>, <<>>, NoFrame))

\* impl TryFrom<RespArray> for Set
Set_try_from(items) ==
    LET args == extract_args(items, 1)
    IN  IF ~validate_command(items, <<"s", "e", "t">>, 2).ok
        THEN validate_command(items, <<"s", "e", "t">>, 2)
        ELSE IF ~IsBulkSome(args[1]) THEN CmdErr("InvalidArgument", "Invalid key or value")
        ELSE IF ~ValidUtf8(args[1].s) THEN Utf8Err
        ELSE CmdOk(Cmd("Set", args[1].s, <<>>, <<>>, args[2]))

\* impl TryFrom<RespArray> for HGet
HGet_try_from(items) ==
    LET args == extract_args(items, 1)
    IN  IF ~validate_command(items, <<"h", "g", "e", "t">>, 2).ok
        THEN validate_command(items, <<"h", "g", "e", "t">>, 2)
        ELSE IF ~IsBulkSome(args[1]) \/ ~IsBulkSome(args[2])
             THEN CmdErr("InvalidArgument", "Invalid key or field")
        ELSE IF ~ValidUtf8(args[1].s) \/ ~ValidUtf8(args[2].s) THEN Utf8Err
        ELSE CmdOk(Cmd("HGet", args[1].s, args[2].s, <<>>, NoFrame))

\* impl TryFrom<RespArray> for HSet
HSet_try_from(items) ==
    LET args == extract_args(items, 1)
    IN  IF ~validate_command(items, <<"h", "s", "e", "t">>, 3).ok
        THEN validate_command(items, <<"h", "s", "e", "t">>, 3)
        ELSE IF ~IsBulkSome(args[1]) \/ ~IsBulkSome(args[2])
             THEN CmdErr("InvalidArgument", "Invalid key, field or value")
        ELSE IF ~ValidUtf8(args[1].s) \/ ~ValidUtf8(args[2].s) THEN Utf8Err
        ELSE CmdOk(Cmd("HSet", args[1].s, args[2].s, <<>>, args[3]))

\* impl TryFrom<RespArray> for HGetAll
HGetAll_try_from(items) ==
    LET args == extract_args(items, 1)
    IN  IF ~validate_command(items, <<"h", "g", "e", "t", "a", "l", "l">>, 1).ok
        THEN validate_command(items, <<"h", "g", "e", "t", "a", "l", "l">>, 1)
        ELSE IF ~IsBulkSome(args[1]) THEN CmdErr("InvalidArgument", "Invalid key")
        ELSE IF ~ValidUtf8(args[1].s) THEN Utf8Err
        ELSE CmdOk(Cmd("HGetAll", args[1].s, <<>>, <<>>, NoFrame))

\* impl TryFrom<RespArray> for HMGet
HMGet_try_from(items) ==
    LET args   == extract_args(items, 1)
        fields == ParseStrings(Advance(args, 1), <<>>, "Invalid field")
    IN  IF ~validate_dynamic_command(items, <<"h", "m", "g", "e", "t">>, 2).ok
        THEN validate_dynamic_command(items, <<"h", "m", "g", "e", "t">>, 2)
        ELSE IF ~IsBulkSome(args[1]) THEN CmdErr("InvalidArgument", "Invalid key")
        ELSE IF ~ValidUtf8(args[1].s) THEN Utf8Err
        ELSE IF ~fields.ok THEN CmdErr(fields.err, fields.msg)
        ELSE CmdOk(Cmd("HMGet", args[1].s, <<>>, fields.list, NoFrame))

\* impl TryFrom<RespArray> for Echo
Echo_try_from(items) ==
    LET args == extract_args(items, 1)
    IN  IF ~validate_command(items, <<"e", "c", "h", "o">>, 1).ok
        THEN validate_command(items, <<"e", "c", "h", "o">>, 1)
        ELSE IF ~IsBulkSome(args[1]) THEN CmdErr("InvalidArgument", "Invalid key")
        ELSE IF ~ValidUtf8(args[1].s) THEN Utf8Err
        ELSE CmdOk(Cmd("Echo", args[1].s, <<>>, <<>>, NoFrame))

\* A faulty SAdd parser that keeps the members that are strings and drops
\* the others.
SAdd_try_from_Partial(items) ==
    LET args == extract_args(items, 1)
        good == SelectSeq(Advance(args, 1), LAMBDA a : IsBulkSome(a) /\ ValidUtf8(a.s))
    IN  IF ~validate_dynamic_command(items, <<"s", "a", "d", "d">>, 2).ok
        THEN validate_dynamic_command(items, <<"s", "a", "d", "d">>, 2)
        ELSE IF ~IsBulkSome(args[1]) THEN CmdErr("InvalidArgument", "Invalid key")
        ELSE IF ~ValidUtf8(args[1].s) THEN Utf8Err
        ELSE IF good = <<>> THEN CmdErr("InvalidArgument", "Invalid member")
        ELSE CmdOk(Cmd("SAdd", args[1].s, <<>>, [j \in 1..Len(good) |-> good[j].s], NoFrame))

\* impl TryFrom<RespArray> for SAdd
SAdd_try_from(items) ==
    LET args    == extract_args(items, 1)
        members == ParseStrings(Advance(args, 1), <<>>, "Invalid member")
    IN  IF ~validate_dynamic_command(items, <<"s", "a", "d", "d">>, 2).ok
        THEN validate_dynamic_command(items, <<"s", "a", "d", "d">>, 2)
        ELSE IF ~IsBulkSome(args[1]) THEN CmdErr("InvalidArgument", "Invalid key")
        ELSE IF ~ValidUtf8(args[1].s) THEN Utf8Err
        ELSE IF ~members.ok THEN CmdErr(members.err, members.msg)
        ELSE CmdOk(Cmd("SAdd", args[1].s, <<>>, members.list, NoFrame))

\* impl TryFrom<RespArray> for SIsMember
SIsMember_try_from(items) ==
    LET args == extract_args(items, 1)
    IN  IF ~validate_command(items, <<"s", "i", "s", "m", "e", "m", "b", "e", "r">>, 2).ok
        THEN validate_command(items, <<"s", "i", "s", "m", "e", "m", "b", "e", "r">>, 2)
        ELSE IF ~IsBulkSome(args[1]) \/ ~IsBulkSome(args[2])
             THEN CmdErr("InvalidArgument", "Invalid key or member")
        ELSE IF ~ValidUtf8(args[1].s) \/ ~ValidUtf8(args[2].s) THEN Utf8Err
        ELSE CmdOk(Cmd("SIsMember", args[1].s, args[2].s, <<>>, NoFrame))

\* A faulty dispatch that takes an Array without a verb for an unknown
\* command.
Command_from_array_Lenient(items) ==
    IF items = <<>> \/ ~IsBulkSome(items[1])
    THEN CmdOk(Cmd("Unrecognized", <<>>, <<>>, <<>>, NoFrame))
    ELSE Get_try_from(items)

\* impl TryFrom<RespArray> for Command: dispatch on the lowercased verb.
Command_from_array(items) ==
    LET verb == to_ascii_lowercase(items[1].s)
    IN  IF items = <<>> \/ ~IsBulkSome(items[1])
        THEN CmdErr("InvalidCommand", "command must have a BulkString as the first arg")
        ELSE CASE verb = <<"g", "e", "t">> -> Get_try_from(items)
               [] verb = <<"s", "e", "t">> -> Set_try_from(items)
               [] verb = <<"h", "g", "e", "t">> -> HGet_try_from(items)
               [] verb = <<"h", "s", "e", "t">> -> HSet_try_from(items)
               [] verb = <<"h", "g", "e", "t", "a", "l", "l">> -> HGetAll_try_from(items)
               [] verb = <<"h", "m", "g", "e", "t">> -> HMGet_try_from(items)
               [] verb = <<"e", "c", "h", "o">> -> Echo_try_from(items)
               [] verb = <<"s", "a", "d", "d">> -> SAdd_try_from(items)
               [] verb = <<"s", "i", "s", "m", "e", "m", "b", "e", "r">> ->
                    SIsMember_try_from(items)
               [] OTHER -> CmdOk(Cmd("Unrecognized", <<>>, <<>>, <<>>, NoFrame))

\* impl TryFrom<RespFrame> for Command
Command_try_from(frame) ==
    IF frame.t # "Array" THEN CmdErr("InvalidCommand", "Command must be RespArray")
    ELSE IF frame.null THEN CmdErr("InvalidCommand", "Command must not be RespNullArray")
    ELSE Command_from_array(frame.items)

\* CommandError's Display (thiserror): the variant's prefix and message,
\* as the payload of the SimpleError reply.
ErrorText(err, msg) ==
    CASE err = "InvalidCommand"  -> <<"Invalid command: ", msg>>
      [] err = "InvalidArgument" -> <<"Invalid argument: ", msg>>
      [] OTHER                   -> <<msg>>

\* RespError's Display, for a decoder error that reaches stream_handler.
RespErrorText(r) ==
    CASE r = "InvalidFrame"       -> <<"Invalid frame: ">>
      [] r = "InvalidFrameType"   -> <<"Invalid frame type: ">>
      [] r = "InvalidFrameLength" -> <<"Invalid frame length: ">>
      [] r = "ParseIntError"      -> <<"Parse int error: ">>
      [] r = "ParseFloatError"    -> <<"Parse float error: ">>
      [] OTHER                    -> <<"Frame is not complete">>

\* CommandExecutor::execute for the commands that make one backend call (or
\* none): the reply and the stores after it.
Executed(reply, m, hm, hs) == [reply |-> reply, map |-> m, hmap |-> hm, hset |-> hs]

OrNull(opt) == IF opt.some THEN opt.v ELSE NullF

\* A faulty Get::execute that answers a stored null form with the unitary
\* Null.
Get_execute_Coerce(cmd, m, hm, hs) ==
    Executed(IF OrNull(Backend_get(m, cmd.key)).t \in {"NullBulkString", "NullArray"}
             THEN NullF
             ELSE OrNull(Backend_get(m, cmd.key)), m, hm, hs)

Get_execute(cmd, m, hm, hs) == Executed(OrNull(Backend_get(m, cmd.key)), m, hm, hs)

Set_execute(cmd, m, hm, hs) == Executed(RESP_OK, Backend_set(m, cmd.key, cmd.value), hm, hs)

\* A faulty HGet::execute that falls back to the string store.
HGet_execute_Shared(cmd, m, hm, hs) ==
    Executed(IF Backend_hget(hm, cmd.key, cmd.field).some
             THEN Backend_hget(hm, cmd.key, cmd.field).v
             ELSE OrNull(Backend_get(m, cmd.key)), m, hm, hs)

HGet_execute(cmd, m, hm, hs) ==
    Executed(OrNull(Backend_hget(hm, cmd.key, cmd.field)), m, hm, hs)

HSet_execute(cmd, m, hm, hs) ==
    Executed(RESP_OK, m, Backend_hset(hm, cmd.key, cmd.field, cmd.value), hs)

\* A faulty SIsMember::execute that looks the key up through entry() and so
\* leaves an empty set under a key that had none.
SIsMember_execute_Create(cmd, m, hm, hs) ==
    Executed(IntegerF(IF Backend_sismember(hs, cmd.key, cmd.field) THEN 1 ELSE 0), m, hm,
             IF cmd.key \in DOMAIN hs THEN hs ELSE Put(hs, cmd.key, {}))

SIsMember_execute(cmd, m, hm, hs) ==
    Executed(IntegerF(IF Backend_sismember(hs, cmd.key, cmd.field) THEN 1 ELSE 0), m, hm, hs)

Echo_execute(cmd, m, hm, hs) == Executed(BulkStringF(cmd.key), m, hm, hs)

\* A faulty stub that empties the string store.
Unrecognized_execute_Clear(cmd, m, hm, hs) == Executed(RESP_OK, EmptyMap, hm, hs)

Unrecognized_execute(cmd, m, hm, hs) == Executed(RESP_OK, m, hm, hs)

SingleOps == {"Get", "Set", "HGet", "HSet", "SIsMember", "Echo", "Unrecognized"}

Execute(cmd, m, hm, hs) ==
    CASE cmd.op = "Get"       -> Get_execute(cmd, m, hm, hs)
      [] cmd.op = "Set"       -> Set_execute(cmd, m, hm, hs)
      [] cmd.op = "HGet"      -> HGet_execute(cmd, m, hm, hs)
      [] cmd.op = "HSet"      -> HSet_execute(cmd, m, hm, hs)
      [] cmd.op = "SIsMember" -> SIsMember_execute(cmd, m, hm, hs)
      [] cmd.op = "Echo"      -> Echo_execute(cmd, m, hm, hs)
      [] OTHER                -> Unrecognized_execute(cmd, m, hm, hs)


\* ------------------------------------------------------------------ state

\* The codec harness: a producer encodes frames into a buffer, cuts it or
\* appends to it, and a consumer calls RespFrame::decode on it.
VARIABLES
    frames,     \* the frames the producer encoded, in order
    tail,       \* raw bytes the producer appended after them
    origin,     \* how buf was made: "empty", "building", "frames", "prefix",
                \* "completed", "trailing", "raw"
    buf,        \* the BytesMut handed to RespFrame::decode
    before,     \* buf on entry to the last decode call
    outs,       \* the results [r, f] of the decode calls so far
    inserts     \* the <<key, value>> pairs put into the map being built, in order

\* The server: connection tasks over one shared backend.
VARIABLES
    map,        \* BackendInner.map
    hmap,       \* BackendInner.hmap
    hset,       \* BackendInner.hset
    pc,         \* per connection: "none" (not accepted), "next" (at
                \* framed.next().await), "handle" (in request_handler),
                \* "exec" (inside an execute loop), "done"
    sock,       \* bytes the peer has written and the server has not read
    peerClosed, \* the peer has shut down its sending side
    nsent,      \* number of requests the peer has written
    rbuf,       \* Framed's read buffer
    is_readable,\* Framed's state.is_readable
    eof,        \* Framed's state.eof
    has_errored,\* Framed's state.has_errored
    request,    \* the frame framed.next() yielded (pc = "handle")
    cmd,        \* the command being executed (pc = "exec")
    ret,        \* HMGet::execute's ret vector
    added,      \* SAdd::execute's added counter
    decoded,    \* the frames framed.next() has yielded, in order
    replies     \* the frames written with framed.send, in order

codecVars == <<frames, tail, origin, buf, before, outs, inserts>>

backendVars == <<map, hmap, hset>>

connVars == <<pc, sock, peerClosed, nsent, rbuf, is_readable, eof, has_errored,
              request, cmd, ret, added, decoded, replies>>

vars == <<codecVars, backendVars, connVars>>

\* ------------------------------------------------------------ codec model

MaxItems == 2
MaxPipeline == 2
MaxRaw == 4
MaxCalls == 2

\* No encoded frame of FrameSet is longer than this.
MaxEncoded == 40

TextOK == <<"O", "K">>

\* Payloads of SimpleString and SimpleError frames (no CR, no LF).
Texts == {<<>>, TextOK}

\* Payloads of BulkString frames: arbitrary bytes, CR LF among them.
Payloads == {<<>>, <<"a">>, <<"h", "i">>, CRLF, <<"a", CR, LF, "b">>, <<CR>>}

Ints == {0, 7, 0 - 7, 120}

\* Doubles m * 10^e: 0, 1.5, -1.5, 2.5e9, 3e-9, 1e8.
Doubles == {<<0, 0>>, <<15, 0 - 1>>, <<0 - 15, 0 - 1>>, <<25, 8>>, <<3, 0 - 9>>, <<1, 8>>}

\* The null spellings are the variants RespFrame::decode yields for $-1 and
\* *-1; BulkString(None) and RespArray(None) are built by new_null() alone,
\* which only the unit tests call.
LeafFrames ==
    {SimpleStringF(s) : s \in Texts} \cup {ErrorF(s) : s \in Texts}
    \cup {IntegerF(i) : i \in Ints}
    \cup {BulkStringF(s) : s \in Payloads}
    \cup {NullBulkStringF, NullArrayF, NullF}
    \cup {BooleanF(TRUE), BooleanF(FALSE)}
    \cup {DoubleF(d[1], d[2]) : d \in Doubles}

\* The children of the aggregates.
ItemFrames ==
    {BulkStringF(<<"a">>), IntegerF(7), NullBulkStringF, NullF, BooleanF(TRUE),
     ArrayF(<<SimpleStringF(TextOK)>>)}

KeySeqs == {<<>>, <<<<"a">>>>, <<<<"b">>>>, <<<<"a">>, <<"b">>>>}

ItemSeqs == UNION {[1..n -> ItemFrames] : n \in 0..MaxItems}

MapFrames == {MapF(ks, v) : ks \in KeySeqs, v \in ItemSeqs}

\* Aggregates with a negative integer, with each of the null spellings and
\* the empty BulkString and Array, and with a bulk string whose payload holds
\* a CR LF, as children.
NestedFrames ==
    {ArrayF(<<IntegerF(0 - 7), IntegerF(120)>>),
     SetF(<<IntegerF(0), IntegerF(0 - 7)>>),
     MapF(<<<<"a">>>>, <<IntegerF(0 - 7)>>),
     ArrayF(<<NullArrayF, NullBulkStringF>>),
     ArrayF(<<NullF, ArrayF(<<>>)>>),
     SetF(<<NullArrayF, BulkStringF(<<>>)>>),
     MapF(<<<<"a">>, <<"b">>>>, <<NullArrayF, NullF>>),
     ArrayF(<<IntegerF(7), BulkStringF(<<"a", CR, LF, "b">>)>>)}

AggregateFrames ==
    {ArrayF(v) : v \in ItemSeqs} \cup {SetF(v) : v \in ItemSeqs}
    \cup {f \in MapFrames : Len(f.keys) = Len(f.items)} \cup NestedFrames

FrameSet == LeafFrames \cup AggregateFrames

\* The frames pipelined behind a first one.
Followers == {SimpleStringF(TextOK), BulkStringF(<<"a">>), ArrayF(<<IntegerF(7)>>)}

RawBytes == {"$", "*", "+", "1", "-", CR, LF}

RawTails == {<<"*">>, <<"+", "O">>, <<CR, LF>>}

\* The producer encodes a frame onto the buffer.
Produce(f) ==
    /\ origin \in {"empty", "frames"}
    /\ outs = <<>>
    /\ Len(frames) < MaxPipeline
    /\ frames = <<>> \/ f \in Followers
    /\ frames' = Append(frames, f)
    /\ buf' = buf \o Encode(f)
    /\ origin' = "frames"
    /\ UNCHANGED <<tail, before, outs>>
    /\ UNCHANGED inserts
    /\ UNCHANGED <<backendVars, connVars>>

\* The keys and the values a producer puts into a map.
InsertKeys == {<<"a">>, <<"b">>}

InsertVals == {IntegerF(7), BulkStringF(<<"a">>), NullF}

\* RespMap::new() followed by one insert per pair of ins, in their order.
RECURSIVE RespMap_build(_, _)
RespMap_build(ins, m) ==
    IF ins = <<>> THEN MapF(m.keys, m.vals)
    ELSE RespMap_build(Tail(ins), MapInsert(m.keys, m.vals, Head(ins)[1], Head(ins)[2]))

\* The producer inserts the entry (k, v) into the map it is building.
Insert(k, v) ==
    /\ origin \in {"empty", "building"}
    /\ outs = <<>>
    /\ Len(inserts) < MaxItems
    /\ inserts' = Append(inserts, <<k, v>>)
    /\ origin' = "building"
    /\ UNCHANGED <<frames, tail, buf, before, outs>>
    /\ UNCHANGED <<backendVars, connVars>>

\* The producer encodes the map it has built onto the buffer.
EncodeMap ==
    /\ origin = "building"
    /\ outs = <<>>
    /\ \E f \in {RespMap_build(inserts, [keys |-> <<>>, vals |-> <<>>])} :
           /\ frames' = <<f>>
           /\ buf' = Encode(f)
    /\ origin' = "frames"
    /\ UNCHANGED <<tail, before, outs, inserts>>
    /\ UNCHANGED <<backendVars, connVars>>

\* Only the first i bytes of one encoded frame have arrived.
Truncate(i) ==
    /\ origin = "frames"
    /\ Len(frames) = 1
    /\ outs = <<>>
    /\ i < Len(buf)
    /\ buf' = SubSeq(buf, 1, i)
    /\ origin' = "prefix"
    /\ UNCHANGED <<frames, tail, before, outs>>
    /\ UNCHANGED inserts
    /\ UNCHANGED <<backendVars, connVars>>

\* The bytes of the frame that were missing arrive behind what a first
\* decode call left in the buffer.
Complete ==
    /\ origin = "prefix"
    /\ Len(outs) = 1
    /\ buf' = buf \o Advance(Encode(frames[1]), Len(before))
    /\ origin' = "completed"
    /\ UNCHANGED <<frames, tail, before, outs>>
    /\ UNCHANGED inserts
    /\ UNCHANGED <<backendVars, connVars>>

\* Bytes of a following, unfinished frame have arrived behind the frames.
Trail(t) ==
    /\ origin = "frames"
    /\ outs = <<>>
    /\ tail' = t
    /\ buf' = buf \o t
    /\ origin' = "trailing"
    /\ UNCHANGED <<frames, before, outs>>
    /\ UNCHANGED inserts
    /\ UNCHANGED <<backendVars, connVars>>

\* Malformed input a peer may write: a bulk string whose declared length is
\* not the length of what precedes its second CRLF, negative counts, a
\* boolean that is neither t nor f, an unknown tag.
Crafted ==
    {<<"$", "1", CR, LF, CR, LF>>,
     <<"$", "3", CR, LF, "h", "i", CR, LF>>,
     <<"$", "-", "2", CR, LF, CR, LF>>,
     <<"*", "-", "2", CR, LF>>,
     <<"%", "-", "1", CR, LF>>,
     <<"~", "-", "1", CR, LF>>,
     <<"#", "x", CR, LF>>,
     <<"!", "1", CR, LF>>,
     <<":", "a", CR, LF>>,
     <<"*", "1", CR, LF, "$", "3", CR, LF, "h", "i", CR, LF>>}

\* A peer writes one of the malformed inputs.
Craft(b) ==
    /\ origin = "empty"
    /\ buf' = b
    /\ origin' = "raw"
    /\ UNCHANGED <<frames, tail, before, outs>>
    /\ UNCHANGED inserts
    /\ UNCHANGED <<backendVars, connVars>>

\* Arbitrary bytes arrive.
PutByte(b) ==
    /\ origin \in {"empty", "raw"}
    /\ outs = <<>>
    /\ Len(buf) < MaxRaw
    /\ buf' = Append(buf, b)
    /\ origin' = "raw"
    /\ UNCHANGED <<frames, tail, before, outs>>
    /\ UNCHANGED inserts
    /\ UNCHANGED <<backendVars, connVars>>

\* One call of RespFrame::decode(&mut buf).
DecodeCall ==
    /\ Len(outs) < MaxCalls
    /\ \E d \in {Decode(buf)} :
           /\ outs' = Append(outs, [r |-> d.r, f |-> d.f])
           /\ buf' = d.buf
    /\ before' = buf
    /\ UNCHANGED <<frames, tail, origin>>
    /\ UNCHANGED inserts
    /\ UNCHANGED <<backendVars, connVars>>


\* ----------------------------------------------------------- server model

NumConns == 3

Conns == 1..NumConns

\* A fresh codec harness, and the server after main has bound its listener
\* and made the backend: no connection accepted yet.
Init ==
    /\ frames = <<>>
    /\ tail = <<>>
    /\ origin = "empty"
    /\ buf = <<>>
    /\ before = <<>>
    /\ outs = <<>>
    /\ inserts = <<>>
    /\ map = EmptyMap
    /\ hmap = [x \in {} |-> EmptyMap]
    /\ hset = [x \in {} |-> {}]
    /\ pc = [c \in Conns |-> "none"]
    /\ sock = [c \in Conns |-> <<>>]
    /\ peerClosed = [c \in Conns |-> FALSE]
    /\ nsent = [c \in Conns |-> 0]
    /\ rbuf = [c \in Conns |-> <<>>]
    /\ is_readable = [c \in Conns |-> FALSE]
    /\ eof = [c \in Conns |-> FALSE]
    /\ has_errored = [c \in Conns |-> FALSE]
    /\ request = [c \in Conns |-> NoFrame]
    /\ cmd = [c \in Conns |-> NoCmd]
    /\ ret = [c \in Conns |-> <<>>]
    /\ added = [c \in Conns |-> 0]
    /\ decoded = [c \in Conns |-> <<>>]
    /\ replies = [c \in Conns |-> <<>>]

\* Total number of requests the peers write.
MaxReqs == 3

RECURSIVE SumTo(_, _)
SumTo(f, c) == IF c = 0 THEN 0 ELSE f[c] + SumTo(f, c - 1)

TotalSent == SumTo(nsent, NumConns)

\* A read from the socket returns some of the bytes that are there: all of
\* them, or all but the last one.
ReadSizes(b) == {n \in {Len(b) - 1, Len(b)} : n >= 1}

\* A faulty send that puts the frame in front of the ones sent before.
FramedSend_Prepend(out, frame) == <<frame>> \o out

\* framed.send(frame): the frame goes out behind the ones sent before.
FramedSend(out, frame) == Append(out, frame)

\* The keys and fields the requests name.
KeyNames == {<<"k">>, <<"j">>}

FieldNames == {<<"f">>, <<"g">>}

\* The orders in which the elements of S can be met.
Orders(S) == {o \in [1..Cardinality(S) -> S] : \A i, j \in DOMAIN o : i # j => o[i] # o[j]}

\* Connection d holds the Ref of hmap.get(key): Backend::hgetall keeps it,
\* a read lock on the key's shard of hmap, while it clones the inner map.
HoldsRef(d, key) == pc[d] = "exec" /\ cmd[d].op = "HGetAll" /\ cmd[d].key = key

\* A faulty lock that lets entry() through while a Ref is held.
EntryBlocked_Never(cm) == FALSE

\* Backend::hset's hmap.entry(key) needs the write lock of the key's shard:
\* it waits while a connection holds a Ref into it.
EntryBlocked(cm) == cm.op = "HSet" /\ \E d \in Conns : HoldsRef(d, cm.key)

\* A faulty clone that puts the value in front of its field.
CloneShard_ValueFirst(r, inner, fn) ==
    IF fn \in DOMAIN inner THEN r \o <<inner[fn], BulkStringF(fn)>> ELSE r

\* DashMap::clone reads the inner map's shards one after the other: the
\* entry of field fn, if there is one, joins the clone r.
CloneShard(r, inner, fn) ==
    IF fn \in DOMAIN inner THEN r \o <<BulkStringF(fn), inner[fn]>> ELSE r

\* main's loop: listener.accept() and tokio::spawn of stream_handler.
Accept(c) ==
    /\ pc[c] = "none"
    /\ pc' = [pc EXCEPT ![c] = "next"]
    /\ UNCHANGED <<sock, peerClosed, nsent, rbuf, is_readable, eof, has_errored,
                   cmd, ret, added, decoded, replies>>
    /\ UNCHANGED <<codecVars, backendVars, request>>

\* The peer writes the bytes m of one request into the open connection.
ClientSend(c, m) ==
    /\ pc[c] \notin {"none", "done"}
    /\ ~peerClosed[c]
    /\ TotalSent < MaxReqs
    /\ sock' = [sock EXCEPT ![c] = @ \o m]
    /\ nsent' = [nsent EXCEPT ![c] = @ + 1]
    /\ UNCHANGED <<pc, peerClosed, rbuf, is_readable, eof, has_errored,
                   cmd, ret, added, decoded, replies>>
    /\ UNCHANGED <<codecVars, backendVars, request>>

\* The peer shuts down its sending side.
ClientClose(c) ==
    /\ pc[c] \notin {"none", "done"}
    /\ ~peerClosed[c]
    /\ peerClosed' = [peerClosed EXCEPT ![c] = TRUE]
    /\ UNCHANGED <<pc, sock, nsent, rbuf, is_readable, eof, has_errored,
                   cmd, ret, added, decoded, replies>>
    /\ UNCHANGED <<codecVars, backendVars, request>>

\* A faulty end of stream: the error is forgotten and decoding resumes.
NextNone_Resume(c) ==
    /\ pc[c] = "next"
    /\ has_errored[c]
    /\ has_errored' = [has_errored EXCEPT ![c] = FALSE]
    /\ is_readable' = [is_readable EXCEPT ![c] = FALSE]
    /\ UNCHANGED <<pc, sock, peerClosed, nsent, rbuf, eof, cmd, ret, added, decoded, replies>>
    /\ UNCHANGED <<codecVars, backendVars, request>>

\* framed.next() after a decoder error: Framed ends the stream (None) and
\* stream_handler returns Ok(()).
NextNone(c) ==
    /\ pc[c] = "next"
    /\ has_errored[c]
    /\ has_errored' = [has_errored EXCEPT ![c] = FALSE]
    /\ is_readable' = [is_readable EXCEPT ![c] = FALSE]
    /\ pc' = [pc EXCEPT ![c] = "done"]
    /\ UNCHANGED <<sock, peerClosed, nsent, rbuf, eof, cmd, ret, added, decoded, replies>>
    /\ UNCHANGED <<codecVars, backendVars, request>>

\* framed.next(): the buffer holds no frame, the socket yields n > 0 bytes.
PollRead(c) ==
    /\ pc[c] = "next"
    /\ ~has_errored[c]
    /\ ~is_readable[c]
    /\ \E n \in ReadSizes(sock[c]) :
           /\ rbuf' = [rbuf EXCEPT ![c] = @ \o SubSeq(sock[c], 1, n)]
           /\ sock' = [sock EXCEPT ![c] = Advance(@, n)]
    /\ eof' = [eof EXCEPT ![c] = FALSE]
    /\ is_readable' = [is_readable EXCEPT ![c] = TRUE]
    /\ UNCHANGED <<pc, peerClosed, nsent, has_errored, cmd, ret, added, decoded, replies>>
    /\ UNCHANGED <<codecVars, backendVars, request>>

\* A faulty end of stream that sends a last frame to the peer that closed.
PollReadEof_Farewell(c) ==
    /\ pc[c] = "next"
    /\ ~has_errored[c]
    /\ ~is_readable[c]
    /\ sock[c] = <<>>
    /\ peerClosed[c]
    /\ IF eof[c]
       THEN /\ pc' = [pc EXCEPT ![c] = "done"]
            /\ UNCHANGED <<eof, is_readable, replies>>
       ELSE /\ eof' = [eof EXCEPT ![c] = TRUE]
            /\ is_readable' = [is_readable EXCEPT ![c] = TRUE]
            /\ replies' = [replies EXCEPT ![c] = FramedSend(@, NullF)]
            /\ UNCHANGED pc
    /\ UNCHANGED <<sock, peerClosed, nsent, rbuf, has_errored, cmd, ret, added, decoded>>
    /\ UNCHANGED <<codecVars, backendVars, request>>

\* framed.next(): the socket yields 0 bytes.  The first time Framed notes
\* the end of the stream and tries decode_eof; the second time it ends the
\* stream and stream_handler returns Ok(()).
PollReadEof(c) ==
    /\ pc[c] = "next"
    /\ ~has_errored[c]
    /\ ~is_readable[c]
    /\ sock[c] = <<>>
    /\ peerClosed[c]
    /\ IF eof[c]
       THEN /\ pc' = [pc EXCEPT ![c] = "done"]
            /\ UNCHANGED <<eof, is_readable>>
       ELSE /\ eof' = [eof EXCEPT ![c] = TRUE]
            /\ is_readable' = [is_readable EXCEPT ![c] = TRUE]
            /\ UNCHANGED pc
    /\ UNCHANGED <<sock, peerClosed, nsent, rbuf, has_errored, cmd, ret, added,
                   decoded, replies>>
    /\ UNCHANGED <<codecVars, backendVars, request>>

\* The guard of the steps in which Framed calls RespFrameCodec::decode.
CanDecode(c) == pc[c] = "next" /\ ~has_errored[c] /\ is_readable[c]

\* RespFrameCodec::decode returns Ok(None): more bytes are needed.  At the
\* end of the stream decode_eof ends it when the buffer is empty (and
\* stream_handler returns), and reports "bytes remaining on stream" as an
\* error otherwise, which stream_handler answers with a SimpleError.
DecodeNone(c) ==
    /\ CanDecode(c)
    /\ \E d \in {Decode(rbuf[c])} :
           /\ d.r = "NotComplete"
           /\ rbuf' = [rbuf EXCEPT ![c] = d.buf]
           /\ IF ~eof[c]
              THEN /\ is_readable' = [is_readable EXCEPT ![c] = FALSE]
                   /\ UNCHANGED <<pc, has_errored, replies>>
              ELSE IF d.buf = <<>>
              THEN /\ is_readable' = [is_readable EXCEPT ![c] = FALSE]
                   /\ pc' = [pc EXCEPT ![c] = "done"]
                   /\ UNCHANGED <<has_errored, replies>>
              ELSE /\ has_errored' = [has_errored EXCEPT ![c] = TRUE]
                   /\ replies' = [replies EXCEPT ![c] =
                         FramedSend(@, ErrorF(<<"bytes remaining on stream">>))]
                   /\ UNCHANGED <<pc, is_readable>>
    /\ UNCHANGED <<sock, peerClosed, nsent, eof, cmd, ret, added, decoded>>
    /\ UNCHANGED <<codecVars, backendVars, request>>

\* A faulty decoder error that marks the stream of every connection as
\* errored, as if the connections shared one codec.
DecodeError_Shared(c) ==
    /\ CanDecode(c)
    /\ \E d \in {Decode(rbuf[c])} :
           /\ d.r \notin {"Ok", "NotComplete"}
           /\ rbuf' = [rbuf EXCEPT ![c] = d.buf]
           /\ has_errored' = [x \in Conns |-> pc[x] # "none"]
           /\ replies' = [replies EXCEPT ![c] = FramedSend(@, ErrorF(RespErrorText(d.r)))]
    /\ UNCHANGED <<pc, sock, peerClosed, nsent, is_readable, eof, cmd, ret, added, decoded>>
    /\ UNCHANGED <<codecVars, backendVars, request>>

\* RespFrameCodec::decode returns Err(e) for a RespError other than
\* NotComplete: Framed yields Some(Err(e)) and stream_handler sends
\* SimpleError(e.to_string()).
DecodeError(c) ==
    /\ CanDecode(c)
    /\ \E d \in {Decode(rbuf[c])} :
           /\ d.r \notin {"Ok", "NotComplete"}
           /\ rbuf' = [rbuf EXCEPT ![c] = d.buf]
           /\ has_errored' = [has_errored EXCEPT ![c] = TRUE]
           /\ replies' = [replies EXCEPT ![c] = FramedSend(@, ErrorF(RespErrorText(d.r)))]
    /\ UNCHANGED <<pc, sock, peerClosed, nsent, is_readable, eof, cmd, ret, added, decoded>>
    /\ UNCHANGED <<codecVars, backendVars, request>>

\* framed.next() yields Some(Ok(frame)): stream_handler builds the
\* RedisRequest and calls request_handler.
FrameReady(c) ==
    /\ CanDecode(c)
    /\ \E d \in {Decode(rbuf[c])} :
           /\ d.r = "Ok"
           /\ rbuf' = [rbuf EXCEPT ![c] = d.buf]
           /\ decoded' = [decoded EXCEPT ![c] = Append(@, d.f)]
           /\ request' = [request EXCEPT ![c] = d.f]
    /\ pc' = [pc EXCEPT ![c] = "handle"]
    /\ UNCHANGED <<sock, peerClosed, nsent, is_readable, eof, has_errored,
                   cmd, ret, added, replies>>
    /\ UNCHANGED <<codecVars, backendVars>>

\* A faulty handling of a rejected request: the error is sent and the task
\* returns.
RequestRejected_Close(c) ==
    /\ pc[c] = "handle"
    /\ LET p == Command_try_from(request[c])
       IN  /\ ~p.ok
           /\ replies' = [replies EXCEPT ![c] = FramedSend(@, ErrorF(ErrorText(p.err, p.msg)))]
    /\ pc' = [pc EXCEPT ![c] = "done"]
    /\ request' = [request EXCEPT ![c] = NoFrame]
    /\ UNCHANGED <<sock, peerClosed, nsent, rbuf, is_readable, eof, has_errored,
                   cmd, ret, added, decoded>>
    /\ UNCHANGED <<codecVars, backendVars>>

\* request_handler's try_into fails: stream_handler sends
\* SimpleError(e.to_string()) and goes on with the loop.
RequestRejected(c) ==
    /\ pc[c] = "handle"
    /\ LET p == Command_try_from(request[c])
       IN  /\ ~p.ok
           /\ replies' = [replies EXCEPT ![c] = FramedSend(@, ErrorF(ErrorText(p.err, p.msg)))]
    /\ pc' = [pc EXCEPT ![c] = "next"]
    /\ request' = [request EXCEPT ![c] = NoFrame]
    /\ UNCHANGED <<sock, peerClosed, nsent, rbuf, is_readable, eof, has_errored,
                   cmd, ret, added, decoded>>
    /\ UNCHANGED <<codecVars, backendVars>>

\* The frame parses into a command that makes at most one backend call: it
\* is executed and its reply sent.
RequestSingle(c) ==
    /\ pc[c] = "handle"
    /\ LET p == Command_try_from(request[c])
           x == Execute(p.cmd, map, hmap, hset)
       IN  /\ p.ok
           /\ p.cmd.op \in SingleOps
           /\ ~EntryBlocked(p.cmd)
           /\ map' = x.map
           /\ hmap' = x.hmap
           /\ hset' = x.hset
           /\ replies' = [replies EXCEPT ![c] = FramedSend(@, x.reply)]
    /\ pc' = [pc EXCEPT ![c] = "next"]
    /\ request' = [request EXCEPT ![c] = NoFrame]
    /\ UNCHANGED <<sock, peerClosed, nsent, rbuf, is_readable, eof, has_errored,
                   cmd, ret, added, decoded>>
    /\ UNCHANGED codecVars

\* HGETALL: backend.hgetall finds no hash and the reply is the empty Array,
\* or it takes the Ref of the hash and starts to clone it.  The order in
\* which the clone meets the shards of the fields depends on their hashes.
RequestHGetAll(c) ==
    /\ pc[c] = "handle"
    /\ LET p == Command_try_from(request[c])
       IN  /\ p.ok
           /\ p.cmd.op = "HGetAll"
           /\ IF ~Backend_hgetall(hmap, p.cmd.key).some
              THEN /\ replies' = [replies EXCEPT ![c] = FramedSend(@, ArrayF(<<>>))]
                   /\ pc' = [pc EXCEPT ![c] = "next"]
                   /\ UNCHANGED cmd
              ELSE /\ \E o \in Orders(FieldNames) :
                         cmd' = [cmd EXCEPT ![c] = [p.cmd EXCEPT !.list = o]]
                   /\ pc' = [pc EXCEPT ![c] = "exec"]
                   /\ UNCHANGED replies
    /\ request' = [request EXCEPT ![c] = NoFrame]
    /\ ret' = [ret EXCEPT ![c] = <<>>]
    /\ UNCHANGED <<sock, peerClosed, nsent, rbuf, is_readable, eof, has_errored,
                   added, decoded>>
    /\ UNCHANGED <<codecVars, backendVars>>

\* Backend::hgetall's clone reads one more shard; after the last one the
\* Ref is dropped and HGetAll::execute's Array of the clone's entries, each
\* field followed by its value, is sent.
HGetAllStep(c) ==
    /\ pc[c] = "exec"
    /\ cmd[c].op = "HGetAll"
    /\ LET r2   == CloneShard(ret[c], Backend_hgetall(hmap, cmd[c].key).v, cmd[c].list[1])
           rest == Advance(cmd[c].list, 1)
       IN  IF rest # <<>>
           THEN /\ ret' = [ret EXCEPT ![c] = r2]
                /\ cmd' = [cmd EXCEPT ![c].list = rest]
                /\ UNCHANGED <<pc, replies>>
           ELSE /\ replies' = [replies EXCEPT ![c] = FramedSend(@, ArrayF(r2))]
                /\ ret' = [ret EXCEPT ![c] = <<>>]
                /\ cmd' = [cmd EXCEPT ![c] = NoCmd]
                /\ pc' = [pc EXCEPT ![c] = "next"]
    /\ UNCHANGED <<sock, peerClosed, nsent, rbuf, is_readable, eof, has_errored, added, decoded>>
    /\ UNCHANGED <<codecVars, backendVars, request>>

\* The frame parses into HMGET or SADD: execute starts its loop over the
\* fields or members, one backend call each.
RequestLoop(c) ==
    /\ pc[c] = "handle"
    /\ LET p == Command_try_from(request[c])
       IN  /\ p.ok
           /\ p.cmd.op \in {"HMGet", "SAdd"}
           /\ cmd' = [cmd EXCEPT ![c] = p.cmd]
    /\ pc' = [pc EXCEPT ![c] = "exec"]
    /\ request' = [request EXCEPT ![c] = NoFrame]
    /\ ret' = [ret EXCEPT ![c] = <<>>]
    /\ added' = [added EXCEPT ![c] = 0]
    /\ UNCHANGED <<sock, peerClosed, nsent, rbuf, is_readable, eof, has_errored,
                   decoded, replies>>
    /\ UNCHANGED <<codecVars, backendVars>>

\* A faulty push that answers a miss with the null BulkString.
HMGet_push_NullBulk(r, opt) == Append(r, IF opt.some THEN opt.v ELSE NullBulkStringF)

\* The match in HMGet::execute's loop: the value, or RespNull for a miss, is
\* pushed onto ret.
HMGet_push(r, opt) == Append(r, OrNull(opt))

\* HMGet::execute, one turn of `for field in &self.fields`: backend.hget
\* and a push; after the last field the Array is sent.
HMGetStep(c) ==
    /\ pc[c] = "exec"
    /\ cmd[c].op = "HMGet"
    /\ LET field == cmd[c].list[Len(ret[c]) + 1]
           r2    == HMGet_push(ret[c], Backend_hget(hmap, cmd[c].key, field))
       IN  IF Len(r2) < Len(cmd[c].list)
           THEN /\ ret' = [ret EXCEPT ![c] = r2]
                /\ UNCHANGED <<pc, cmd, replies>>
           ELSE /\ replies' = [replies EXCEPT ![c] = FramedSend(@, ArrayF(r2))]
                /\ ret' = [ret EXCEPT ![c] = <<>>]
                /\ cmd' = [cmd EXCEPT ![c] = NoCmd]
                /\ pc' = [pc EXCEPT ![c] = "next"]
    /\ UNCHANGED <<sock, peerClosed, nsent, rbuf, is_readable, eof, has_errored, added, decoded>>
    /\ UNCHANGED <<codecVars, backendVars, request>>

\* SAdd::execute, one turn of `for member in self.members`: backend.sadd
\* and the sum; after the last member the Integer is sent.
SAddStep(c) ==
    /\ pc[c] = "exec"
    /\ cmd[c].op = "SAdd"
    /\ LET x    == Backend_sadd(hset, cmd[c].key, cmd[c].list[1])
           rest == Advance(cmd[c].list, 1)
       IN  /\ hset' = x.hset
           /\ IF rest # <<>>
              THEN /\ added' = [added EXCEPT ![c] = @ + x.ret]
                   /\ cmd' = [cmd EXCEPT ![c].list = rest]
                   /\ UNCHANGED <<pc, replies>>
              ELSE /\ replies' = [replies EXCEPT ![c] = FramedSend(@, IntegerF(added[c] + x.ret))]
                   /\ added' = [added EXCEPT ![c] = 0]
                   /\ cmd' = [cmd EXCEPT ![c] = NoCmd]
                   /\ pc' = [pc EXCEPT ![c] = "next"]
    /\ UNCHANGED <<sock, peerClosed, nsent, rbuf, is_readable, eof, has_errored, ret, decoded>>
    /\ UNCHANGED <<codecVars, map, hmap, request>>

CodecNext ==
    \/ \E f \in FrameSet : Produce(f)
    \/ \E k \in InsertKeys, v \in InsertVals : Insert(k, v)
    \/ EncodeMap
    \/ \E i \in 0..MaxEncoded : Truncate(i)
    \/ Complete
    \/ \E t \in RawTails : Trail(t)
    \/ \E b \in Crafted : Craft(b)
    \/ \E b \in RawBytes : PutByte(b)
    \/ DecodeCall

\* The codec on its own: the server does not move.
CodecSpec == Init /\ [][CodecNext]_vars


\* --------------------------------------------------------- the requests

\* A request as redis-cli writes it: an Array of BulkStrings.
Req(words) == Encode(ArrayF([i \in 1..Len(words) |-> BulkStringF(words[i])]))

\* A request whose arguments are the frames args.
ReqWith(verb, args) == Encode(ArrayF(<<BulkStringF(verb)>> \o args))

GET == <<"G", "E", "T">>

SET == <<"S", "E", "T">>

HGET == <<"H", "G", "E", "T">>

HSET == <<"h", "s", "e", "t">>

HMGET == <<"H", "M", "G", "E", "T">>

HGETALL == <<"H", "G", "E", "T", "A", "L", "L">>

ECHO == <<"e", "c", "h", "o">>

SADD == <<"S", "A", "D", "D">>

SISMEMBER == <<"S", "I", "S", "M", "E", "M", "B", "E", "R">>

\* Requests no command accepts: a frame that is not an Array, a GET with no
\* key, a SET whose key is not a BulkString.
BadRequests ==
    { Encode(RESP_OK), Req(<<GET>>), ReqWith(SET, <<IntegerF(1), BulkStringF(<<"v">>)>>) }

\* Bytes the decoder rejects: an unknown type byte, a Boolean that is
\* neither t nor f, an Array of length -2.
BadBytes ==
    { <<"!", "1", CR, LF>>, <<"#", "x", CR, LF>>, <<"*", "-", "2", CR, LF>> }

\* What the peers of the concurrent server write.
Msgs ==
    { Req(<<ECHO, <<"a">>>>), Req(<<ECHO, <<"b">>>>),
      Req(<<HSET, <<"k">>, <<"f">>, <<"v">>>>), Req(<<HMGET, <<"k">>, <<"f">>, <<"g">>>>),
      Req(<<HGETALL, <<"k">>>>), Req(<<SADD, <<"s">>, <<"a">>, <<"b">>>>),
      Encode(RESP_OK), <<"!", "1", CR, LF>> }

\* What the peer of the one-connection server writes.
SeqMsgs ==
    { Req(<<SET, <<"k">>, <<"v">>>>), ReqWith(SET, <<BulkStringF(<<"k">>), IntegerF(7)>>),
      Req(<<SET, <<"j">>, <<"w">>>>), Req(<<GET, <<"k">>>>),
      Req(<<HSET, <<"k">>, <<"f">>, <<"v">>>>), Req(<<HSET, <<"k">>, <<"f">>, <<"w">>>>),
      Req(<<HSET, <<"k">>, <<"g">>, <<"u">>>>), Req(<<HSET, <<"j">>, <<"f">>, <<"u">>>>),
      Req(<<HGET, <<"k">>, <<"f">>>>), Req(<<HMGET, <<"k">>, <<"f">>, <<"g">>, <<"f">>>>),
      Req(<<HGETALL, <<"k">>>>), Req(<<SADD, <<"s">>, <<"a">>, <<"a">>>>),
      Req(<<SET, <<"k">>, CRLF>>),
      Req(<<GET>>), Encode(RESP_OK), <<"#", "x", CR, LF>> }

\* What the peer writes when the three stores are used under one key.
StoreMsgs ==
    { Req(<<SET, <<"k">>, <<"v">>>>), Req(<<GET, <<"k">>>>),
      Req(<<HSET, <<"k">>, <<"f">>, <<"v">>>>), Req(<<HSET, <<"k">>, <<"g">>, <<"u">>>>),
      Req(<<HGET, <<"k">>, <<"f">>>>), Req(<<HMGET, <<"k">>, <<"f">>, <<"g">>>>),
      Req(<<HGETALL, <<"k">>>>),
      Req(<<SADD, <<"k">>, <<"a">>, <<"a">>>>), Req(<<SADD, <<"k">>, <<"a">>, <<"b">>>>),
      Req(<<SADD, <<"k">>, <<"b">>>>),
      Req(<<SISMEMBER, <<"k">>, <<"a">>>>), Req(<<SISMEMBER, <<"k">>, <<"b">>>>),
      Req(<<SISMEMBER, <<"j">>, <<"a">>>>) }

\* ------------------------------------------------------ the specifications

Next ==
    \E c \in Conns :
        \/ Accept(c)
        \/ \E m \in Msgs : ClientSend(c, m)
        \/ ClientClose(c)
        \/ PollRead(c)
        \/ PollReadEof(c)
        \/ NextNone(c)
        \/ DecodeNone(c)
        \/ DecodeError(c)
        \/ FrameReady(c)
        \/ RequestRejected(c)
        \/ RequestSingle(c)
        \/ RequestHGetAll(c)
        \/ HGetAllStep(c)
        \/ RequestLoop(c)
        \/ HMGetStep(c)
        \/ SAddStep(c)

\* The server with its connection tasks running concurrently.
Spec == Init /\ [][Next]_vars

\* The server with one connection, the setting of the claims about what a
\* single client observes.
SeqNext ==
    \/ Accept(1)
    \/ \E m \in SeqMsgs : ClientSend(1, m)
    \/ ClientClose(1)
    \/ PollRead(1)
    \/ PollReadEof(1)
    \/ NextNone(1)
    \/ DecodeNone(1)
    \/ DecodeError(1)
    \/ FrameReady(1)
    \/ RequestRejected(1)
    \/ RequestSingle(1)
    \/ RequestHGetAll(1)
    \/ HGetAllStep(1)
    \/ RequestLoop(1)
    \/ HMGetStep(1)
    \/ SAddStep(1)

SeqSpec == Init /\ [][SeqNext]_vars

\* The server with one connection whose peer uses one key in all three
\* stores and keeps the connection open.
StoreNext ==
    \/ Accept(1)
    \/ \E m \in StoreMsgs : ClientSend(1, m)
    \/ PollRead(1)
    \/ DecodeNone(1)
    \/ FrameReady(1)
    \/ RequestSingle(1)
    \/ RequestHGetAll(1)
    \/ HGetAllStep(1)
    \/ RequestLoop(1)
    \/ HMGetStep(1)
    \/ SAddStep(1)

StoreSpec == Init /\ [][StoreNext]_vars

\* The same, with the task scheduled: once framed.next() can return None,
\* the runtime polls the task and stream_handler returns.
SeqFairSpec == SeqSpec /\ WF_vars(NextNone(1))

\* What the peer of connection c writes when the connections work on the
\* same keys at the same time: two writers of the string k and a reader of
\* it, three writers of the set s whose members are pairwise different, and
\* a writer of the hash k, who also sends two HSETs in one write, with a
\* reader of it; any further connection only reads.
ConcMsgs(c) ==
    CASE c = 1 -> { Req(<<SET, <<"k">>, <<"v">>>>), Req(<<SADD, <<"s">>, <<"a">>>>),
                    Req(<<HSET, <<"k">>, <<"f">>, <<"v">>>>),
                    Req(<<HSET, <<"k">>, <<"f">>, <<"w">>>>)
                       \o Req(<<HSET, <<"k">>, <<"g">>, <<"u">>>>) }
      [] c = 2 -> { Req(<<SET, <<"k">>, <<"w">>>>), Req(<<SADD, <<"s">>, <<"b">>, <<"b">>>>) }
      [] c = 3 -> { Req(<<GET, <<"k">>>>), Req(<<SADD, <<"s">>, <<"c">>, <<"d">>>>),
                    Req(<<HGETALL, <<"k">>>>) }
      [] OTHER -> { Req(<<GET, <<"k">>>>), Req(<<HGETALL, <<"k">>>>) }

\* The socket hands over everything the peer has written in one read.
ReadsAll(c) == sock'[c] = <<>>

\* The server with its connection tasks interleaved by the runtime: every
\* step of every task can be the next one.
ConcNext ==
    \E c \in Conns :
        \/ Accept(c)
        \/ \E m \in ConcMsgs(c) : ClientSend(c, m)
        \/ PollRead(c) /\ ReadsAll(c)
        \/ DecodeNone(c)
        \/ FrameReady(c)
        \/ RequestSingle(c)
        \/ RequestHGetAll(c)
        \/ HGetAllStep(c)
        \/ RequestLoop(c)
        \/ SAddStep(c)

ConcSpec == Init /\ [][ConcNext]_vars

\* How many requests the peer of the parsing server writes.
MaxParse == 2

\* One well-formed request of every command: the verb as the peer spells
\* it, its arguments, and the positions of the arguments that are strings.
Templates ==
    { [verb |-> GET, args |-> <<BulkStringF(<<"k">>)>>, pos |-> {1}],
      [verb |-> SET, args |-> <<BulkStringF(<<"k">>), BulkStringF(<<"v">>)>>, pos |-> {1}],
      [verb |-> HGET, args |-> <<BulkStringF(<<"k">>), BulkStringF(<<"f">>)>>, pos |-> {1, 2}],
      [verb |-> HSET,
       args |-> <<BulkStringF(<<"k">>), BulkStringF(<<"f">>), BulkStringF(<<"v">>)>>,
       pos |-> {1, 2}],
      [verb |-> HGETALL, args |-> <<BulkStringF(<<"k">>)>>, pos |-> {1}],
      [verb |-> HMGET, args |-> <<BulkStringF(<<"k">>), BulkStringF(<<"f">>)>>, pos |-> {1, 2}],
      [verb |-> ECHO, args |-> <<BulkStringF(<<"a">>)>>, pos |-> {1}],
      [verb |-> SADD, args |-> <<BulkStringF(<<"k">>), BulkStringF(<<"a">>)>>, pos |-> {1, 2}],
      [verb |-> SISMEMBER, args |-> <<BulkStringF(<<"k">>), BulkStringF(<<"a">>)>>,
       pos |-> {1, 2}] }

\* Arguments that are not a string: the null BulkString, an Integer, a
\* BulkString of the byte 0xFF.
BadArgs == { NullBulkStringF, IntegerF(7), BulkStringF(<<"xFF">>) }

\* Frames that are no request: a SimpleString, an Integer, the null Array,
\* the empty Array, an Array that starts with an Integer or with the null
\* BulkString.
MalformedMsgs ==
    { Encode(RESP_OK), Encode(IntegerF(7)), Encode(NullArrayF), Encode(ArrayF(<<>>)),
      Encode(ArrayF(<<IntegerF(1), BulkStringF(<<"k">>)>>)),
      Encode(ArrayF(<<NullBulkStringF, BulkStringF(<<"k">>)>>)) }

\* Requests whose verb is no command of the server, with no argument, with
\* string arguments, and with arguments that are not strings.
UnknownMsgs ==
    { Req(<<<<"P", "I", "N", "G">>>>), Req(<<<<"G", "E", "T", "X">>, <<"k">>>>),
      Req(<<<<"d", "e", "l">>, <<"k">>, <<"j">>>>),
      ReqWith(<<"F", "O", "O">>, <<IntegerF(7), NullBulkStringF, BulkStringF(<<"xFF">>)>>) }

\* Writes of several arguments of which a later one is not a string.
MultiBadMsgs ==
    { ReqWith(SADD, <<BulkStringF(<<"k">>), BulkStringF(<<"c">>), IntegerF(7)>>),
      ReqWith(SADD, <<BulkStringF(<<"k">>), BulkStringF(<<"c">>), BulkStringF(<<"xFF">>)>>),
      ReqWith(SADD, <<BulkStringF(<<"k">>), BulkStringF(<<"c">>), NullBulkStringF,
                      BulkStringF(<<"d">>)>>) }

\* What the peer of the parsing server writes: the frames that are no
\* request, the requests with an unknown verb, the well-formed requests,
\* GET and ECHO in other letter cases, every request with one argument less
\* and with one more, and every request with one string argument replaced
\* by one that is not a string.
ParseMsgs ==
    {ReqWith(t.verb, t.args) : t \in Templates}
    \cup { Req(<<<<"g", "e", "t">>, <<"k">>>>), Req(<<<<"G", "e", "T">>, <<"k">>>>),
           Req(<<<<"E", "c", "h", "O">>, <<"a">>>>) }
    \cup MalformedMsgs
    \cup UnknownMsgs
    \cup MultiBadMsgs
    \cup {ReqWith(t.verb, SubSeq(t.args, 1, Len(t.args) - 1)) : t \in Templates}
    \cup {ReqWith(t.verb, Append(t.args, BulkStringF(<<"x">>))) : t \in Templates}
    \cup UNION {{ReqWith(t.verb, [t.args EXCEPT ![i] = b]) : i \in t.pos, b \in BadArgs} :
                  t \in Templates}

\* The server with one connection whose peer writes well-formed and
\* ill-formed requests.
ParseNext ==
    \/ Accept(1)
    \/ \E m \in ParseMsgs : ClientSend(1, m) /\ nsent[1] < MaxParse
    \/ PollRead(1) /\ ReadsAll(1)
    \/ DecodeNone(1)
    \/ FrameReady(1)
    \/ RequestRejected(1)
    \/ RequestSingle(1)
    \/ RequestHGetAll(1)
    \/ HGetAllStep(1)
    \/ RequestLoop(1)
    \/ HMGetStep(1)
    \/ SAddStep(1)

ParseSpec == Init /\ [][ParseNext]_vars

\* The frames a peer stores as values: every null form, the empty forms, a
\* scalar of each kind and an aggregate with a null inside.
StoredValues ==
    {NullBulkStringF, NullArrayF, NullF, BulkStringF(<<>>), ArrayF(<<>>),
     BulkStringF(<<"v">>), IntegerF(0 - 7), BooleanF(TRUE), DoubleF(15, 0 - 1),
     ArrayF(<<NullArrayF, NullBulkStringF>>)}

\* What the peer writes when it stores values of every variant and reads
\* them back.
ValueMsgs ==
    {ReqWith(SET, <<BulkStringF(<<"k">>), v>>) : v \in StoredValues}
    \cup {ReqWith(HSET, <<BulkStringF(<<"k">>), BulkStringF(<<"f">>), v>>) : v \in StoredValues}
    \cup {Req(<<GET, <<"k">>>>), Req(<<HGET, <<"k">>, <<"f">>>>)}

\* The server with one connection whose peer stores and reads back values.
ValueNext ==
    \/ Accept(1)
    \/ \E m \in ValueMsgs : ClientSend(1, m) /\ nsent[1] < MaxParse
    \/ PollRead(1)
    \/ DecodeNone(1)
    \/ FrameReady(1)
    \/ RequestSingle(1)

ValueSpec == Init /\ [][ValueNext]_vars

\* What every peer writes when the connections add the same members to the
\* same set at the same time.
SAddMsgs == { Req(<<SADD, <<"s">>, <<"a">>>>), Req(<<SADD, <<"s">>, <<"a">>, <<"b">>>>) }

\* The server with its connection tasks interleaved, every peer adding the
\* same members.
SAddNext ==
    \E c \in Conns :
        \/ Accept(c)
        \/ \E m \in SAddMsgs : ClientSend(c, m)
        \/ PollRead(c) /\ ReadsAll(c)
        \/ DecodeNone(c)
        \/ FrameReady(c)
        \/ RequestLoop(c)
        \/ SAddStep(c)

SAddSpec == Init /\ [][SAddNext]_vars

\* What the peer of connection c writes when a hash is read with HMGET
\* while it is written: connection 1 sets the fields f and g of k, every
\* other connection reads both.
HMGetMsgs(c) ==
    IF c = 1
    THEN { Req(<<HSET, <<"k">>, <<"f">>, <<"v">>>>), Req(<<HSET, <<"k">>, <<"g">>, <<"u">>>>) }
    ELSE { Req(<<HMGET, <<"k">>, <<"f">>, <<"g">>>>) }

\* The server with its connection tasks interleaved, one peer writing a
\* hash and the others reading it with HMGET.
HMGetNext ==
    \E c \in Conns :
        \/ Accept(c)
        \/ \E m \in HMGetMsgs(c) : ClientSend(c, m)
        \/ PollRead(c) /\ ReadsAll(c)
        \/ DecodeNone(c)
        \/ FrameReady(c)
        \/ RequestSingle(c)
        \/ RequestLoop(c)
        \/ HMGetStep(c)

HMGetSpec == Init /\ [][HMGetNext]_vars

\* What the peers write when the visibility of writes is observed:
\* connection 1 writes a string, a hash field and a set, each twice over or
\* once; the others read them.
VisMsgs(c) ==
    CASE c = 1 -> { Req(<<SET, <<"k">>, <<"v">>>>), Req(<<SET, <<"k">>, <<"w">>>>),
                    Req(<<HSET, <<"k">>, <<"f">>, <<"v">>>>),
                    Req(<<HSET, <<"k">>, <<"f">>, <<"w">>>>),
                    Req(<<SADD, <<"s">>, <<"a">>>>) }
      [] c = 2 -> { Req(<<GET, <<"k">>>>), Req(<<HGET, <<"k">>, <<"f">>>>),
                    Req(<<SISMEMBER, <<"s">>, <<"a">>>>) }
      [] c = 3 -> { Req(<<HMGET, <<"k">>, <<"f">>>>), Req(<<HGETALL, <<"k">>>>) }
      [] OTHER -> { Req(<<GET, <<"k">>>>) }

\* The server with its connection tasks interleaved, one peer writing and
\* the others reading what it writes.
VisNext ==
    \E c \in Conns :
        \/ Accept(c)
        \/ \E m \in VisMsgs(c) : ClientSend(c, m)
        \/ PollRead(c) /\ ReadsAll(c)
        \/ DecodeNone(c)
        \/ FrameReady(c)
        \/ RequestSingle(c)
        \/ RequestHGetAll(c)
        \/ HGetAllStep(c)
        \/ RequestLoop(c)
        \/ HMGetStep(c)
        \/ SAddStep(c)

VisSpec == Init /\ [][VisNext]_vars

\* What the peers write when connections fail next to each other: the
\* first one a request that is rejected and bytes the decoder rejects, the
\* others requests that are served, the second one such bytes as well.
IndepMsgs(c) ==
    CASE c = 1 -> { Req(<<GET>>), <<"#", "x", CR, LF>> }
      [] c = 2 -> { Req(<<SET, <<"k">>, <<"v">>>>), Req(<<GET, <<"k">>>>),
                    <<"#", "x", CR, LF>> }
      [] OTHER -> { Req(<<SET, <<"k">>, <<"v">>>>), Req(<<GET, <<"k">>>>) }

\* The server with its connection tasks interleaved, every peer free to
\* write what the server rejects and to close its side.
IndepNext ==
    \E c \in Conns :
        \/ Accept(c)
        \/ \E m \in IndepMsgs(c) : ClientSend(c, m)
        \/ ClientClose(c)
        \/ PollRead(c) /\ ReadsAll(c)
        \/ PollReadEof(c)
        \/ NextNone(c)
        \/ DecodeNone(c)
        \/ DecodeError(c)
        \/ FrameReady(c)
        \/ RequestRejected(c)
        \/ RequestSingle(c)

IndepSpec == Init /\ [][IndepNext]_vars

\* What the peer writes when the server's progress is observed: requests
\* that are served, one that is rejected, bytes the decoder rejects, and an
\* Array holding a BulkString whose declared length is not the length of
\* its payload.
LiveMsgs ==
    { Req(<<SET, <<"k">>, <<"v">>>>), Req(<<GET, <<"k">>>>), Req(<<GET>>),
      <<"#", "x", CR, LF>>,
      <<"*", "1", CR, LF, "$", "3", CR, LF, "h", "i", CR, LF>> }

\* The steps of the task of connection c in which Framed calls the decoder:
\* one of them can be taken exactly when CanDecode(c) holds.
DecodeStep(c) ==
    \/ DecodeNone(c)
    \/ DecodeError(c)
    \/ FrameReady(c)

\* The other steps of the task of connection c.
TaskStep(c) ==
    \/ PollRead(c)
    \/ PollReadEof(c)
    \/ NextNone(c)
    \/ RequestRejected(c)
    \/ RequestSingle(c)

LiveNext ==
    \/ Accept(1)
    \/ \E m \in LiveMsgs : ClientSend(1, m) /\ nsent[1] < MaxParse
    \/ ClientClose(1)
    \/ TaskStep(1)
    \/ DecodeStep(1)

\* The server with one connection whose task the runtime polls whenever it
\* can take a step (weak fairness of its steps, that of the decoding steps
\* written with their guard); the peer is free to stay silent and to keep
\* the connection open.
LiveSpec ==
    /\ Init /\ [][LiveNext]_vars
    /\ WF_vars(TaskStep(1))
    /\ ([]<>(~CanDecode(1)) \/ []<><<DecodeStep(1)>>_vars)

\* ------------------------------------------------------- claims: the codec

LastOut == outs[Len(outs)]

\* C1: codec round trip.  Decoding the bytes encode(f) produced, for every
\* frame f of the bounded grammar, returns a frame equal to f and leaves the
\* buffer empty.
C1_RoundTrip ==
    (origin = "frames" /\ Len(frames) = 1 /\ Len(outs) = 1)
        => (outs[1].r = "Ok" /\ outs[1].f = frames[1] /\ buf = <<>>)

\* C2: whenever decode returns NotComplete, whatever the buffer held, the
\* buffer after the call is byte for byte the buffer before the call.
C2_NotCompleteKeepsBuffer ==
    (outs # <<>> /\ LastOut.r = "NotComplete") => buf = before

\* C3: decoder atomicity.  On the first i bytes of e = encode(f), decode
\* returns NotComplete and leaves the buffer unchanged when i < len(e),
\* never an error and never a frame; on all of e it returns f.
C3_PrefixAtomicity ==
    /\ (origin = "prefix" /\ Len(outs) = 1)
          => (outs[1].r = "NotComplete" /\ buf = before)
    /\ (origin = "frames" /\ Len(frames) = 1 /\ Len(outs) = 1)
          => (outs[1].r = "Ok" /\ outs[1].f = frames[1])

\* C4: with the complete encoding of frames followed by trailing bytes t in
\* the buffer, the k-th decode call returns the k-th frame and leaves
\* exactly the encodings of the later frames and t.
C4_ConsumesOneFrame ==
    (origin \in {"frames", "trailing"} /\ outs # <<>> /\ Len(outs) <= Len(frames))
        => /\ LastOut.r = "Ok"
           /\ LastOut.f = frames[Len(outs)]
           /\ buf = EncodeAll(SubSeq(frames, Len(outs) + 1, Len(frames))) \o tail

\* ------------------------------------------------------ claims: the server

Min(a, b) == IF a < b THEN a ELSE b

\* The requests of connection c that have been answered.
Answered(c) == Min(Len(replies[c]), Len(decoded[c]))

\* Only connection 1 has been accepted.
SingleConn == \A d \in Conns \ {1} : pc[d] = "none"

\* The reply r is a reply to the request frame f: the SimpleError of its
\* parse failure, or a result of the kind its command produces.
ReplyFits(f, r) ==
    LET p == Command_try_from(f)
    IN  IF ~p.ok THEN r = ErrorF(ErrorText(p.err, p.msg))
        ELSE CASE p.cmd.op = "Echo" -> r = BulkStringF(p.cmd.key)
               [] p.cmd.op \in {"Set", "HSet", "Unrecognized"} -> r = RESP_OK
               [] p.cmd.op = "HMGet" ->
                    r.t = "Array" /\ ~r.null /\ Len(r.items) = Len(p.cmd.list)
               [] p.cmd.op = "HGetAll" -> r.t = "Array" /\ ~r.null
               [] p.cmd.op \in {"SAdd", "SIsMember"} -> r.t = "Integer"
               [] OTHER -> r.t # "Error"

\* The decoder of connection c has reported an error: there is a reply more
\* than there are requests.
Errored(c) == Len(replies[c]) = Len(decoded[c]) + 1

\* C5: on one connection every decoded request gets exactly one reply, the
\* k-th reply written is the reply to the k-th request decoded, no reply
\* is written for a request not yet decoded, and replies are not reordered:
\* the replies run at most one behind the requests (the one in
\* request_handler) and at most one ahead (the SimpleError that reports a
\* decoder error and ends the connection).
C5_RepliesInOrder ==
    \A c \in Conns :
        /\ Len(replies[c]) \in {Len(decoded[c]) - 1, Len(decoded[c]), Len(decoded[c]) + 1}
        /\ (Len(replies[c]) = Len(decoded[c]) - 1) <=> (pc[c] \in {"handle", "exec"})
        /\ Errored(c) =>
              /\ replies[c][Len(replies[c])].t = "Error"
              /\ has_errored[c] \/ pc[c] = "done"
        /\ \A k \in 1..Answered(c) : ReplyFits(decoded[c][k], replies[c][k])

\* Two different requests of one connection answered, each with its own
\* reply, while a third is on its way.
C5_Witness ==
    \E c \in Conns :
        /\ Len(replies[c]) = 2
        /\ Len(decoded[c]) = 2
        /\ Command_try_from(decoded[c][1]).cmd.op = "Set"
        /\ Command_try_from(decoded[c][2]).cmd.op = "HMGet"
        /\ sock[c] # <<>>

\* Connection c is where request_handler has just failed to parse the frame.
Rejecting(c) == pc[c] = "handle" /\ ~Command_try_from(request[c]).ok

\* C6: a decoded frame that fails command parsing is answered with exactly
\* one SimpleError and the connection stays open: the task is back at
\* framed.next() with the stream not in error and the bytes behind the frame
\* still buffered, so that a later request is served; the task only ends on
\* the peer's end of stream or on a decoder error.
C6_RejectKeepsOpen ==
    /\ [](\A c \in Conns :
            /\ \A k \in 1..Answered(c) :
                  ~Command_try_from(decoded[c][k]).ok
                      => /\ replies[c][k].t = "Error"
                         /\ ReplyFits(decoded[c][k], replies[c][k])
            /\ pc[c] = "done" => (peerClosed[c] \/ Errored(c)))
    /\ [][\A c \in Conns :
            (Rejecting(c) /\ pc'[c] # "handle")
                => /\ Len(replies'[c]) = Len(replies[c]) + 1
                   /\ replies'[c][Len(replies'[c])].t = "Error"
                   /\ SubSeq(replies'[c], 1, Len(replies[c])) = replies[c]
                   /\ pc'[c] = "next"
                   /\ ~has_errored'[c]
                   /\ rbuf'[c] = rbuf[c]
                   /\ sock'[c] = sock[c]]_vars

\* A rejected request answered with a SimpleError, and the next request of
\* the same connection decoded, executed and answered with a result.
C6_Witness ==
    \E c \in Conns :
        /\ Len(replies[c]) >= 2
        /\ Len(decoded[c]) >= 2
        /\ ~Command_try_from(decoded[c][1]).ok
        /\ replies[c][1].t = "Error"
        /\ Command_try_from(decoded[c][2]).ok
        /\ replies[c][2] = RESP_OK
        /\ pc[c] = "next"

\* The decoder errors that are not NotComplete.
InvalidErrors ==
    {"InvalidFrame", "InvalidFrameType", "InvalidFrameLength", "ParseIntError",
     "ParseFloatError"}

\* Connection c is where decode is about to reject the buffered bytes.
Rejects(c) == CanDecode(c) /\ Decode(rbuf[c]).r \in InvalidErrors

RECURSIVE LastSet(_, _, _)
LastSet(hist, n, key) ==
    IF n = 0 THEN NullF
    ELSE LET p == Command_try_from(hist[n])
         IN  IF p.ok /\ p.cmd.op = "Set" /\ p.cmd.key = key THEN p.cmd.value
             ELSE LastSet(hist, n - 1, key)

\* The value of the last HSET of key and field among the first n requests
\* of hist, or the unitary Null.
RECURSIVE LastHSet(_, _, _, _)
LastHSet(hist, n, key, field) ==
    IF n = 0 THEN NullF
    ELSE LET p == Command_try_from(hist[n])
         IN  IF p.ok /\ p.cmd.op = "HSet" /\ p.cmd.key = key /\ p.cmd.field = field
             THEN p.cmd.value
             ELSE LastHSet(hist, n - 1, key, field)

\* C8: with a single connection, after any sequence of commands the server
\* has taken from it, the reply to GET k is the value of the most recent
\* SET k v before it, or the unitary Null when there is none; the reply to
\* SET is +OK, and the store holds for every key the value of its last SET
\* and nothing for a key never SET.
C8_GetReturnsLastSet ==
    SingleConn =>
        /\ \A n \in 1..Answered(1) :
              LET p == Command_try_from(decoded[1][n])
              IN  /\ (p.ok /\ p.cmd.op = "Get")
                        => replies[1][n] = LastSet(decoded[1], n - 1, p.cmd.key)
                  /\ (p.ok /\ p.cmd.op = "Set") => replies[1][n] = RESP_OK
        /\ DOMAIN map \subseteq KeyNames
        /\ \A key \in KeyNames :
              /\ OrNull(Backend_get(map, key)) = LastSet(decoded[1], Answered(1), key)
              /\ key \in DOMAIN map <=>
                    \E n \in 1..Answered(1) :
                        LET p == Command_try_from(decoded[1][n])
                        IN  p.ok /\ p.cmd.op = "Set" /\ p.cmd.key = key

\* SET k v, SET k 7, GET k: the GET is answered with the second value.
C8_Witness ==
    /\ SingleConn
    /\ Len(replies[1]) = 3
    /\ Len(decoded[1]) = 3
    /\ Command_try_from(decoded[1][1]).cmd.op = "Set"
    /\ Command_try_from(decoded[1][1]).cmd.value = BulkStringF(<<"v">>)
    /\ Command_try_from(decoded[1][2]).cmd.op = "Set"
    /\ Command_try_from(decoded[1][3]).cmd.op = "Get"
    /\ replies[1] = <<RESP_OK, RESP_OK, IntegerF(7)>>

\* C9: with a single connection, the reply to HGET k f is the value of the
\* most recent HSET k f v before it, or the unitary Null when key k has no
\* hash or the hash has no field f; the reply to HSET is +OK, and the store
\* holds for every key and field the value of its last HSET: an HSET
\* changes field f of key k and nothing else.
C9_HGetReturnsLastHSet ==
    SingleConn =>
        /\ \A n \in 1..Answered(1) :
              LET p == Command_try_from(decoded[1][n])
              IN  /\ (p.ok /\ p.cmd.op = "HGet")
                        => replies[1][n] = LastHSet(decoded[1], n - 1, p.cmd.key, p.cmd.field)
                  /\ (p.ok /\ p.cmd.op = "HSet") => replies[1][n] = RESP_OK
        /\ DOMAIN hmap \subseteq KeyNames
        /\ \A key \in DOMAIN hmap : DOMAIN hmap[key] \subseteq FieldNames
        /\ \A key \in KeyNames : \A field \in FieldNames :
              OrNull(Backend_hget(hmap, key, field)) =
                  LastHSet(decoded[1], Answered(1), key, field)

\* HSET k f v, HSET of another field or key, HGET k f: the HGET is answered
\* with v.
C9_Witness ==
    /\ SingleConn
    /\ Len(replies[1]) = 3
    /\ Len(decoded[1]) = 3
    /\ Command_try_from(decoded[1][1]).cmd.op = "HSet"
    /\ Command_try_from(decoded[1][2]).cmd.op = "HSet"
    /\ Command_try_from(decoded[1][2]).cmd.field = <<"g">>
    /\ Command_try_from(decoded[1][3]).cmd.op = "HGet"
    /\ replies[1] = <<RESP_OK, RESP_OK, BulkStringF(<<"v">>)>>

\* C10: with a single connection, the reply to HMGET k f1..fn is a non-null
\* Array of exactly n elements, the i-th being the value field fi has when
\* the command runs, or the unitary Null when key k or field fi is missing;
\* a field named twice is answered twice.
C10_HMGetInOrder ==
    SingleConn =>
        \A n \in 1..Answered(1) :
            LET p == Command_try_from(decoded[1][n])
            IN  (p.ok /\ p.cmd.op = "HMGet")
                    => /\ replies[1][n].t = "Array"
                       /\ ~replies[1][n].null
                       /\ Len(replies[1][n].items) = Len(p.cmd.list)
                       /\ \A i \in 1..Len(p.cmd.list) :
                             replies[1][n].items[i] =
                                 LastHSet(decoded[1], n - 1, p.cmd.key, p.cmd.list[i])

\* HSET k f v, then HMGET k f g f: the value, a Null for the miss, and the
\* value again.
C10_Witness ==
    /\ SingleConn
    /\ Len(replies[1]) = 2
    /\ Len(decoded[1]) = 2
    /\ Command_try_from(decoded[1][2]).cmd.op = "HMGet"
    /\ Command_try_from(decoded[1][2]).cmd.list = <<<<"f">>, <<"g">>, <<"f">>>>
    /\ replies[1][2] = ArrayF(<<BulkStringF(<<"v">>), NullF, BulkStringF(<<"v">>)>>)

\* ------------------------------------------------ claims: hashes and sets

Range(q) == {q[i] : i \in DOMAIN q}

\* The fields of key that an HSET among the first n requests of hist wrote.
FieldsBefore(hist, n, key) ==
    {Command_try_from(hist[j]).cmd.field :
        j \in {i \in 1..n : /\ Command_try_from(hist[i]).ok
                            /\ Command_try_from(hist[i]).cmd.op = "HSet"
                            /\ Command_try_from(hist[i]).cmd.key = key}}

\* The members that the SADDs of key among the first n requests of hist
\* named.
MembersBefore(hist, n, key) ==
    UNION {Range(Command_try_from(hist[j]).cmd.list) :
             j \in {i \in 1..n : /\ Command_try_from(hist[i]).ok
                                 /\ Command_try_from(hist[i]).cmd.op = "SAdd"
                                 /\ Command_try_from(hist[i]).cmd.key = key}}

\* The keys that a command op among the first n requests of hist wrote.
KeysBefore(hist, n, op) ==
    {Command_try_from(hist[j]).cmd.key :
        j \in {i \in 1..n : /\ Command_try_from(hist[i]).ok
                            /\ Command_try_from(hist[i]).cmd.op = op}}

C12_SAddCountsNew ==
    SingleConn =>
        /\ \A n \in 1..Answered(1) :
              LET p == Command_try_from(decoded[1][n])
              IN  (p.ok /\ p.cmd.op = "SAdd")
                      => replies[1][n] =
                            IntegerF(Cardinality(Range(p.cmd.list) \
                                        MembersBefore(decoded[1], n - 1, p.cmd.key)))
        /\ pc[1] # "exec" =>
              /\ DOMAIN hset = KeysBefore(decoded[1], Answered(1), "SAdd")
              /\ \A key \in DOMAIN hset :
                    hset[key] = MembersBefore(decoded[1], Answered(1), key)

\* SADD k a a, then SADD k a b, then SADD k a b again: 1, 1 and 0.
C12_Witness ==
    /\ SingleConn
    /\ Len(replies[1]) = 3
    /\ Len(decoded[1]) = 3
    /\ Command_try_from(decoded[1][1]).cmd.list = <<<<"a">>, <<"a">>>>
    /\ Command_try_from(decoded[1][2]).cmd.list = <<<<"a">>, <<"b">>>>
    /\ decoded[1][3] = decoded[1][2]
    /\ replies[1] = <<IntegerF(1), IntegerF(1), IntegerF(0)>>
    /\ hset[<<"k">>] = {<<"a">>, <<"b">>}

\* C13: with a single connection, the reply to SISMEMBER k m is Integer 1
\* exactly when an earlier SADD on key k named m, and Integer 0 otherwise,
\* a key never written included.
C13_SIsMember ==
    SingleConn =>
        \A n \in 1..Answered(1) :
            LET p == Command_try_from(decoded[1][n])
            IN  (p.ok /\ p.cmd.op = "SIsMember")
                    => replies[1][n] =
                          IntegerF(IF p.cmd.field \in MembersBefore(decoded[1], n - 1, p.cmd.key)
                                   THEN 1 ELSE 0)

\* SADD k a b, then SISMEMBER k b and SISMEMBER j a: 1 and 0.
C13_Witness ==
    /\ SingleConn
    /\ Len(replies[1]) = 3
    /\ Len(decoded[1]) = 3
    /\ Command_try_from(decoded[1][1]).cmd.op = "SAdd"
    /\ Command_try_from(decoded[1][2]).cmd = Cmd("SIsMember", <<"k">>, <<"b">>, <<>>, NoFrame)
    /\ Command_try_from(decoded[1][3]).cmd = Cmd("SIsMember", <<"j">>, <<"a">>, <<>>, NoFrame)
    /\ replies[1] = <<IntegerF(2), IntegerF(1), IntegerF(0)>>

\* C17: the three stores are disjoint keyspaces.  With a single connection,
\* a key no SET wrote reads as Null through GET, a key no HSET wrote reads
\* as missing through HGET, HMGET and HGETALL, and a key no SADD wrote
\* reads as 0 through SISMEMBER, whatever the other stores hold under that
\* key; each store has exactly the keys its own write command wrote, and no
\* step changes more than one store.
C17_DisjointStores ==
    /\ [](SingleConn =>
            /\ \A n \in 1..Answered(1) :
                  LET p == Command_try_from(decoded[1][n])
                      r == replies[1][n]
                      unwritten(op) == p.cmd.key \notin KeysBefore(decoded[1], n - 1, op)
                  IN  p.ok =>
                        /\ (p.cmd.op = "Get" /\ unwritten("Set")) => r = NullF
                        /\ (p.cmd.op = "HGet" /\ unwritten("HSet")) => r = NullF
                        /\ (p.cmd.op = "HMGet" /\ unwritten("HSet"))
                              => r = ArrayF([i \in 1..Len(p.cmd.list) |-> NullF])
                        /\ (p.cmd.op = "HGetAll" /\ unwritten("HSet")) => r = ArrayF(<<>>)
                        /\ (p.cmd.op = "SIsMember" /\ unwritten("SAdd")) => r = IntegerF(0)
            /\ DOMAIN map = KeysBefore(decoded[1], Answered(1), "Set")
            /\ DOMAIN hmap = KeysBefore(decoded[1], Answered(1), "HSet")
            /\ DOMAIN hset \subseteq KeysBefore(decoded[1], Len(decoded[1]), "SAdd")
            /\ KeysBefore(decoded[1], Answered(1), "SAdd") \subseteq DOMAIN hset)
    /\ [][/\ map' # map => (hmap' = hmap /\ hset' = hset)
          /\ hmap' # hmap => (map' = map /\ hset' = hset)
          /\ hset' # hset => (map' = map /\ hmap' = hmap)]_vars

\* SET k v, then HGET k f and SISMEMBER k a: the key is in the string store
\* and the other two reads do not see it.
C17_Witness ==
    /\ SingleConn
    /\ Len(replies[1]) = 3
    /\ Len(decoded[1]) = 3
    /\ Command_try_from(decoded[1][1]).cmd.op = "Set"
    /\ Command_try_from(decoded[1][1]).cmd.key = <<"k">>
    /\ Command_try_from(decoded[1][2]).cmd = Cmd("HGet", <<"k">>, <<"f">>, <<>>, NoFrame)
    /\ Command_try_from(decoded[1][3]).cmd = Cmd("SIsMember", <<"k">>, <<"a">>, <<>>, NoFrame)
    /\ replies[1] = <<RESP_OK, NullF, IntegerF(0)>>
    /\ <<"k">> \in DOMAIN map

\* ------------------------------------------------------ claims: concurrency

\* The members the SADDs of key named that the server has answered, and
\* those of the SADDs it has taken, on any connection.
MembersDone(key) == UNION {MembersBefore(decoded[c], Answered(c), key) : c \in Conns}

MembersTaken(key) == UNION {MembersBefore(decoded[c], Len(decoded[c]), key) : c \in Conns}

\* C14: when the connections SADD pairwise different members to the same
\* key at the same time, no insertion is lost: the set holds every member
\* of every answered SADD and nothing but members some SADD named, so it is
\* their union once all are answered; the reply of each SADD counts each of
\* its distinct members as new unless its own connection added it before,
\* so that repeating the command is answered 0.
C14_ConcurrentSAdd ==
    /\ \A c \in Conns : \A n \in 1..Answered(c) :
          LET p == Command_try_from(decoded[c][n])
          IN  (p.ok /\ p.cmd.op = "SAdd") =>
                 replies[c][n] =
                    IntegerF(Cardinality(Range(p.cmd.list)
                                \ MembersBefore(decoded[c], n - 1, p.cmd.key)))
    /\ MembersDone(<<"s">>) # {} => <<"s">> \in DOMAIN hset
    /\ <<"s">> \in DOMAIN hset =>
          /\ MembersDone(<<"s">>) \subseteq hset[<<"s">>]
          /\ hset[<<"s">>] \subseteq MembersTaken(<<"s">>)

\* Connection 3 is between its two members while the SADDs of connections
\* 1 and 2 have come in and been answered.
C14_Witness ==
    /\ pc[3] = "exec"
    /\ cmd[3].op = "SAdd"
    /\ added[3] = 1
    /\ replies[1] = <<IntegerF(1)>>
    /\ replies[2] = <<IntegerF(1)>>
    /\ hset[<<"s">>] = {<<"a">>, <<"b">>, <<"c">>}

\* The values the SETs of key carry that the server has taken on any
\* connection.
SetValues(key) ==
    UNION {{Command_try_from(decoded[c][n]).cmd.value :
              n \in {i \in 1..Len(decoded[c]) :
                        /\ Command_try_from(decoded[c][i]).ok
                        /\ Command_try_from(decoded[c][i]).cmd.op = "Set"
                        /\ Command_try_from(decoded[c][i]).cmd.key = key}} :
           c \in Conns}

\* C15: when two connections SET the same key to different values at the
\* same time, the key holds one of the written values, whole, from the
\* first answered SET on; a key that is set never goes missing; and a GET
\* on a third connection is answered Null or one of the written values,
\* namely the value the key holds when the GET is executed, never Null for
\* a key that is set.
C15_ConcurrentSet ==
    /\ [](/\ \A key \in DOMAIN map : map[key] \in SetValues(key)
          /\ \A c \in Conns : \A n \in 1..Answered(c) :
                LET p == Command_try_from(decoded[c][n])
                IN  /\ (p.ok /\ p.cmd.op = "Get")
                          => replies[c][n] \in {NullF} \cup SetValues(p.cmd.key)
                    /\ (p.ok /\ p.cmd.op = "Set") => p.cmd.key \in DOMAIN map)
    /\ [][/\ DOMAIN map \subseteq DOMAIN map'
          /\ \A c \in Conns :
                (/\ pc[c] = "handle"
                 /\ pc'[c] = "next"
                 /\ Command_try_from(request[c]).ok
                 /\ Command_try_from(request[c]).cmd.op = "Get"
                 /\ Command_try_from(request[c]).cmd.key \in DOMAIN map)
                => replies'[c][Len(replies'[c])]
                      = map[Command_try_from(request[c]).cmd.key]]_vars

\* Both SETs are answered and the GET of connection 3 came between them: it
\* read v, and the key ends with w.
C15_Witness ==
    /\ replies[1] = <<RESP_OK>>
    /\ replies[2] = <<RESP_OK>>
    /\ replies[3] = <<BulkStringF(<<"v">>)>>
    /\ map[<<"k">>] = BulkStringF(<<"w">>)

\* The hash of key after the first i requests of hist: its fields, each
\* with the value of its last HSET.
HashAfter(hist, i, key) ==
    {<<f, LastHSet(hist, i, key, f)>> : f \in FieldsBefore(hist, i, key)}

\* The pairs of field and value in the Array r of an HGETALL reply.
Pairs(r) == {<<r.items[i].s, r.items[i + 1]>> : i \in {j \in 1..Len(r.items) : j % 2 = 1}}

\* C16: an HGETALL of a key that connection 1 is writing with HSETs at the
\* same time is answered with the hash as it was at one instant: its pairs
\* are those of the hash after some number of connection 1's HSETs, each
\* field once, so that it never holds a later HSET's field without the
\* fields (and values) of the HSETs before it.
C16_SnapshotAtOneInstant ==
    \A c \in Conns : \A n \in 1..Answered(c) :
        LET p == Command_try_from(decoded[c][n])
            r == replies[c][n]
        IN  (/\ p.ok
             /\ p.cmd.op = "HGetAll"
             /\ \A d \in Conns \ {1} :
                   FieldsBefore(decoded[d], Len(decoded[d]), p.cmd.key) = {})
                => /\ r.t = "Array"
                   /\ ~r.null
                   /\ Len(r.items) = 2 * Cardinality(Pairs(r))
                   /\ \E i \in 0..Len(decoded[1]) :
                         Pairs(r) = HashAfter(decoded[1], i, p.cmd.key)

\* Connection 3 has read one shard of the hash for its HGETALL while an
\* HSET of connection 1 on the same key waits for the lock.
C16_Witness ==
    /\ pc[3] = "exec"
    /\ cmd[3].op = "HGetAll"
    /\ Len(cmd[3].list) = 1
    /\ pc[1] = "handle"
    /\ Command_try_from(request[1]).ok
    /\ Command_try_from(request[1]).cmd.op = "HSet"
    /\ Command_try_from(request[1]).cmd.key = cmd[3].key
    /\ EntryBlocked(Command_try_from(request[1]).cmd)

\* ---------------------------------------------------- claims: the requests

\* The bytes a and b are the same letter up to ASCII case.
SameLetter(a, b) == a = b \/ \E j \in 1..26 : {a, b} = {UpperChars[j], LowerChars[j]}

SameWord(x, y) == Len(x) = Len(y) /\ \A i \in 1..Len(x) : SameLetter(x[i], y[i])

\* The verbs of the supported commands.
VerbNames ==
    { <<"g", "e", "t">>, <<"s", "e", "t">>, <<"h", "g", "e", "t">>, <<"h", "s", "e", "t">>,
      <<"h", "g", "e", "t", "a", "l", "l">>, <<"h", "m", "g", "e", "t">>,
      <<"e", "c", "h", "o">>, <<"s", "a", "d", "d">>,
      <<"s", "i", "s", "m", "e", "m", "b", "e", "r">> }

\* The frame f is a request for a supported command, in whatever case.
Known(f) ==
    /\ f.t = "Array"
    /\ ~f.null
    /\ f.items # <<>>
    /\ IsBulkSome(f.items[1])
    /\ \E v \in VerbNames : SameWord(f.items[1].s, v)

VerbOf(f) == CHOOSE v \in VerbNames : SameWord(f.items[1].s, v)

\* The request f with its verb in lower case.
Canonical(f) == [f EXCEPT !.items[1] = BulkStringF(VerbOf(f))]

\* C18: verb matching ignores ASCII case.  With a single connection, a
\* request for a supported command parses, whatever the case of the letters
\* of its verb, to what the request with the lower-case verb parses to,
\* never to the unrecognized command; and of two requests in a row that
\* differ only in the case of the verb, of a command whose reply does not
\* depend on its own earlier run, the second gets the reply of the first.
C18_VerbCaseIgnored ==
    SingleConn =>
        /\ \A n \in 1..Answered(1) :
              LET f == decoded[1][n]
              IN  Known(f) =>
                     /\ Command_try_from(f) = Command_try_from(Canonical(f))
                     /\ Command_try_from(f).cmd.op # "Unrecognized"
        /\ \A n \in 1..(Answered(1) - 1) :
              LET f == decoded[1][n]
                  g == decoded[1][n + 1]
              IN  (/\ Known(f)
                   /\ Known(g)
                   /\ Canonical(f) = Canonical(g)
                   /\ VerbOf(f) # <<"s", "a", "d", "d">>)
                      => replies[1][n] = replies[1][n + 1]

\* GET k and GeT k in a row, both answered Null.
C18_Witness ==
    /\ SingleConn
    /\ Len(decoded[1]) = 2
    /\ Known(decoded[1][1])
    /\ Known(decoded[1][2])
    /\ decoded[1][1].items[1] = BulkStringF(<<"G", "E", "T">>)
    /\ decoded[1][2].items[1] = BulkStringF(<<"G", "e", "T">>)
    /\ Canonical(decoded[1][1]) = Canonical(decoded[1][2])
    /\ replies[1] = <<NullF, NullF>>

\* The number n of arguments suits the command of verb v.
ArityOk(v, n) ==
    CASE v \in {<<"g", "e", "t">>, <<"e", "c", "h", "o">>,
                <<"h", "g", "e", "t", "a", "l", "l">>} -> n = 1
      [] v \in {<<"s", "e", "t">>, <<"h", "g", "e", "t">>,
                <<"s", "i", "s", "m", "e", "m", "b", "e", "r">>} -> n = 2
      [] v = <<"h", "s", "e", "t">> -> n = 3
      [] OTHER -> n >= 2

\* The reply r is the SimpleError of an InvalidArgument.
IsInvalidArgument(r) == r.t = "Error" /\ r.s # <<>> /\ r.s[1] = "Invalid argument: "

\* The request f has a number of arguments that does not suit its command.
WrongArity(f) == Known(f) /\ ~ArityOk(VerbOf(f), Len(f.items) - 1)

\* C19: with a single connection, a request for a supported command with a
\* wrong number of arguments (GET, ECHO, HGETALL take exactly 1, SET, HGET,
\* SISMEMBER exactly 2, HSET exactly 3, HMGET and SADD at least 2) is
\* answered with the SimpleError of an InvalidArgument, and handling it
\* changes no store and leaves the connection in its loop; a request with
\* a suiting number of string arguments is not answered that way.
C19_WrongArityRejected ==
    /\ [](SingleConn =>
            \A n \in 1..Answered(1) :
               LET f == decoded[1][n]
               IN  /\ WrongArity(f) => IsInvalidArgument(replies[1][n])
                   /\ (/\ Known(f)
                       /\ ArityOk(VerbOf(f), Len(f.items) - 1)
                       /\ \A i \in 2..Len(f.items) :
                             IsBulkSome(f.items[i]) /\ ValidUtf8(f.items[i].s))
                          => ~IsInvalidArgument(replies[1][n]))
    /\ [][(SingleConn /\ pc[1] = "handle" /\ WrongArity(request[1]))
             => /\ UNCHANGED <<map, hmap, hset>>
                /\ pc'[1] \in {"handle", "next"}]_vars

\* GET with no argument and GET with two: two InvalidArgument errors and
\* empty stores.
C19_Witness ==
    /\ SingleConn
    /\ Len(decoded[1]) = 2
    /\ Len(replies[1]) = 2
    /\ Known(decoded[1][1])
    /\ Known(decoded[1][2])
    /\ VerbOf(decoded[1][1]) = <<"g", "e", "t">>
    /\ Len(decoded[1][1].items) = 1
    /\ VerbOf(decoded[1][2]) = <<"g", "e", "t">>
    /\ Len(decoded[1][2].items) = 3
    /\ IsInvalidArgument(replies[1][1])
    /\ IsInvalidArgument(replies[1][2])
    /\ map = EmptyMap

\* The positions, among n arguments, of those the command of verb v takes
\* as strings.
StringPos(v, n) ==
    CASE v \in {<<"g", "e", "t">>, <<"e", "c", "h", "o">>, <<"s", "e", "t">>,
                <<"h", "g", "e", "t", "a", "l", "l">>} -> {1}
      [] v \in {<<"h", "g", "e", "t">>, <<"h", "s", "e", "t">>,
                <<"s", "i", "s", "m", "e", "m", "b", "e", "r">>} -> {1, 2}
      [] OTHER -> 1..n

\* C20: with a single connection, a request for a supported command, with
\* a suiting number of arguments, one of whose string arguments (key,
\* field, member, message) is a null BulkString, a frame of another
\* variant or a BulkString of bytes that are not UTF-8, is answered with
\* the SimpleError of an InvalidArgument.
C20_BadArgumentRejected ==
    SingleConn =>
        \A n \in 1..Answered(1) :
            LET f == decoded[1][n]
            IN  (/\ Known(f)
                 /\ ArityOk(VerbOf(f), Len(f.items) - 1)
                 /\ \E i \in StringPos(VerbOf(f), Len(f.items) - 1) :
                       ~(IsBulkSome(f.items[i + 1]) /\ ValidUtf8(f.items[i + 1].s)))
                    => IsInvalidArgument(replies[1][n])

\* The frame f is no request: not an Array (the null Array is a variant of
\* its own), a null or empty Array, or an Array whose first element is not
\* a non-null BulkString.
Malformed(f) ==
    \/ f.t # "Array"
    \/ f.null
    \/ f.items = <<>>
    \/ ~IsBulkSome(f.items[1])

\* The reply r is the SimpleError of an InvalidCommand.
IsInvalidCommand(r) == r.t = "Error" /\ r.s # <<>> /\ r.s[1] = "Invalid command: "

\* C21: with a single connection, a frame that is not an Array, is the null
\* or the empty Array, or whose first element is not a non-null BulkString
\* is answered in-band with the SimpleError of an InvalidCommand; handling
\* it changes no store, does not mark the stream as failed and leaves the
\* connection in its loop.
C21_MalformedRejected ==
    /\ [](SingleConn =>
            \A n \in 1..Answered(1) :
               Malformed(decoded[1][n]) => IsInvalidCommand(replies[1][n]))
    /\ [][(SingleConn /\ pc[1] = "handle" /\ Malformed(request[1]))
             => /\ UNCHANGED <<map, hmap, hset>>
                /\ has_errored'[1] = has_errored[1]
                /\ pc'[1] \in {"handle", "next"}]_vars

\* The empty Array is answered with an InvalidCommand error and the GET
\* behind it is served.
C21_Witness ==
    /\ SingleConn
    /\ Len(decoded[1]) = 2
    /\ decoded[1][1] = ArrayF(<<>>)
    /\ Known(decoded[1][2])
    /\ Len(replies[1]) = 2
    /\ IsInvalidCommand(replies[1][1])
    /\ replies[1][2] = NullF
    /\ pc[1] = "next"

\* The frame f is a request whose verb is none of the supported commands.
Unknown(f) == ~Malformed(f) /\ ~Known(f)

\* C22: with a single connection, a request whose verb is none of the
\* supported commands parses to the Unrecognized command whatever its
\* arguments are, is answered +OK, and handling it changes none of the
\* three stores.
C22_UnknownVerbOk ==
    /\ [](SingleConn =>
            /\ \A n \in 1..Len(decoded[1]) :
                  Unknown(decoded[1][n]) =>
                     Command_try_from(decoded[1][n])
                        = CmdOk(Cmd("Unrecognized", <<>>, <<>>, <<>>, NoFrame))
            /\ \A n \in 1..Answered(1) :
                  Unknown(decoded[1][n]) => replies[1][n] = SimpleStringF(<<"O", "K">>))
    /\ [][(SingleConn /\ pc[1] = "handle" /\ Unknown(request[1]))
             => UNCHANGED <<map, hmap, hset>>]_vars

\* SET k v, then FOO with arguments that are no strings: both answered +OK
\* and k still holds v.
C22_Witness ==
    /\ SingleConn
    /\ Len(decoded[1]) = 2
    /\ Unknown(decoded[1][2])
    /\ Len(decoded[1][2].items) = 4
    /\ replies[1] = <<SimpleStringF(<<"O", "K">>), SimpleStringF(<<"O", "K">>)>>
    /\ <<"k">> \in DOMAIN map
    /\ map[<<"k">>] = BulkStringF(<<"v">>)


\* ------------------------------------------- claims: the codec's contracts

\* The result r of a decode call is an error other than NotComplete.
IsDecodeError(r) == r \notin {"Ok", "NotComplete"}

\* Complete inputs whose length or count is negative and not a null sentinel.
NegativeCounts ==
    {<<"*", "-", "2", CR, LF>>,
     <<"$", "-", "2", CR, LF, CR, LF>>,
     <<"%", "-", "1", CR, LF>>,
     <<"~", "-", "1", CR, LF>>}

\* C27: a negative length or count other than the -1 of $ and * is rejected
\* with an error for every length-prefixed tag: *-2, $-2, %-1 and ~-1 are
\* never decoded as a frame.
C27_NegativeCountRejected ==
    (origin = "raw" /\ Len(outs) = 1 /\ before \in NegativeCounts)
        => (IsDecodeError(outs[1].r) /\ outs[1].f = NoFrame)

\* 10^n for the exponents the window's ends need.
RECURSIVE TenTo(_)
TenTo(n) == IF n <= 0 THEN 1 ELSE 10 * TenTo(n - 1)

\* 1e-8 <= |m * 10^e| <= 1e8, for m # 0.
InsideWindow(m, e) ==
    /\ IF e >= 0 THEN e <= 8 /\ Abs(m) <= TenTo(8 - e)
       ELSE 8 - e >= 10 \/ Abs(m) <= TenTo(8 - e)
    /\ e >= 0 - 8 \/ (0 - 8 - e <= 9 /\ Abs(m) >= TenTo(0 - 8 - e))

\* The bytes b hold an exponent marker.
HasExponent(b) == \E j \in 1..Len(b) : b[j] = "e"

\* C29: encode(Double(x)) is the plain decimal form with an explicit sign
\* when x = 0 or 1e-8 <= |x| <= 1e8, and the scientific form otherwise; in
\* particular Double(0) is encoded in the decimal form.
C29_DoubleForm ==
    (origin = "frames" /\ Len(frames) = 1 /\ outs = <<>> /\ frames[1].t = "Double")
        => LET m == frames[1].i
               e == frames[1].e
           IN  /\ Len(buf) >= 2 /\ buf[1] = ","
               /\ buf[2] = (IF m < 0 THEN "-" ELSE "+")
               /\ HasExponent(buf) <=> ~(m = 0 \/ InsideWindow(m, e))



\* The wire form of an integer: the tag, the sign, the digits, CR LF.
IntegerBytes(i) ==
    <<":", IF i >= 0 THEN "+" ELSE "-">> \o FmtNat(Abs(i)) \o CRLF

\* The aggregate f holds integers only, and at least one.
AllIntegers(f) ==
    /\ f.t \in {"Array", "Set", "Map"}
    /\ ~f.null
    /\ f.items # <<>>
    /\ \A j \in 1..Len(f.items) : f.items[j].t = "Integer"

\* The tag byte of an aggregate.
TagOf(f) == CASE f.t = "Array" -> "*" [] f.t = "Map" -> "%" [] f.t = "Set" -> "~"

\* The wire form of the children of an aggregate of integers, each child of
\* a Map behind its key.
RECURSIVE IntegerItems(_, _)
IntegerItems(keys, items) ==
    IF items = <<>> THEN <<>>
    ELSE (IF keys = <<>> THEN <<>> ELSE <<"+">> \o keys[1] \o CRLF)
         \o IntegerBytes(items[1].i)
         \o IntegerItems(IF keys = <<>> THEN <<>> ELSE Tail(keys), Tail(items))

NullForms == {NullBulkStringF, NullArrayF, NullF}

EmptyForms == {BulkStringF(<<>>), ArrayF(<<>>)}

\* The wire forms of the three nulls and of the two empty frames.
FormWire(f) ==
    CASE f = NullBulkStringF   -> <<"$", "-", "1", CR, LF>>
      [] f = NullArrayF        -> <<"*", "-", "1", CR, LF>>
      [] f = NullF             -> <<"_", CR, LF>>
      [] f = BulkStringF(<<>>) -> <<"$", "0", CR, LF, CR, LF>>
      [] f = ArrayF(<<>>)      -> <<"*", "0", CR, LF>>

\* The aggregate f holds null and empty forms only, a null among them.
CarriesNulls(f) ==
    /\ f.t \in {"Array", "Set", "Map"}
    /\ ~f.null
    /\ \A j \in 1..Len(f.items) : f.items[j] \in NullForms \cup EmptyForms
    /\ \E j \in 1..Len(f.items) : f.items[j] \in NullForms

\* The wire form of the children of such an aggregate.
RECURSIVE FormItems(_, _)
FormItems(keys, items) ==
    IF items = <<>> THEN <<>>
    ELSE (IF keys = <<>> THEN <<>> ELSE <<"+">> \o keys[1] \o CRLF)
         \o FormWire(items[1])
         \o FormItems(IF keys = <<>> THEN <<>> ELSE Tail(keys), Tail(items))

\* C23: $-1, *-1 and _ decode to three pairwise different frames, the null
\* BulkString, the null Array and the unitary Null, at top level and nested
\* inside aggregates, and each encodes back to its own wire form; the empty
\* BulkString $0 and the empty Array *0 are frames different from the nulls.
C23_NullFormsDistinct ==
    /\ Cardinality({FormWire(f) : f \in NullForms \cup EmptyForms}) = 5
    /\ Len(outs) = 1
          => \A f \in NullForms \cup EmptyForms :
                 before = FormWire(f)
                     => /\ outs[1] = [r |-> "Ok", f |-> f]
                        /\ \A g \in (NullForms \cup EmptyForms) \ {f} : outs[1].f # g
                        /\ Encode(outs[1].f) = before
                        /\ buf = <<>>
    /\ (Len(outs) = 1 /\ outs[1].r = "Ok" /\ CarriesNulls(outs[1].f) /\ origin = "frames")
          => Encode(outs[1].f) = SubSeq(before, 1, Len(before) - Len(buf))
    /\ (origin = "frames" /\ Len(frames) = 1 /\ Len(outs) = 1 /\ CarriesNulls(frames[1]))
          => /\ before = <<TagOf(frames[1])>> \o FmtNat(Len(frames[1].items)) \o CRLF
                         \o FormItems(frames[1].keys, frames[1].items)
             /\ outs[1] = [r |-> "Ok", f |-> frames[1]]
             /\ buf = <<>>

\* An Array of the null Array and the null BulkString has been decoded from
\* its wire form, each child as its own variant.
C23_Witness ==
    /\ origin = "frames"
    /\ Len(outs) = 1
    /\ before = <<"*", "2", CR, LF, "*", "-", "1", CR, LF, "$", "-", "1", CR, LF>>
    /\ outs[1].r = "Ok"
    /\ outs[1].f.items = <<NullArrayF, NullBulkStringF>>
    /\ buf = <<>>



\* The sequences of insertions a producer can make.
InsertSeqs == UNION {[1..n -> InsertKeys \X InsertVals] : n \in 1..MaxItems}

\* The keys the insertions ins name.
InsertedKeys(ins) == {ins[j][1] : j \in 1..Len(ins)}

\* The value the last insertion of key k in ins gave it.
LastValue(ins, k) ==
    LET js == {j \in 1..Len(ins) : ins[j][1] = k}
    IN  ins[CHOOSE j \in js : \A i \in js : i <= j][2]

\* The entries of the map the insertions ins make.
FinalEntries(ins) == {<<k, LastValue(ins, k)>> : k \in InsertedKeys(ins)}

\* The wire form of the entries of ins with a key in ks, least key first.
RECURSIVE EntryBytes(_, _)
EntryBytes(ins, ks) ==
    IF ks = {} THEN <<>>
    ELSE LET k == CHOOSE x \in ks : \A o \in ks \ {x} : BytesLess(x, o)
         IN  <<"+">> \o k \o CRLF \o Encode(LastValue(ins, k)) \o EntryBytes(ins, ks \ {k})

\* C26: encoding a Map emits its entries in ascending key order whatever the
\* order of their insertion, each key as a SimpleString followed by its
\* value; two maps with the same entries encode to identical bytes.
C26_MapKeyOrder ==
    (origin = "frames" /\ inserts # <<>> /\ Len(frames) = 1 /\ outs = <<>>)
        => /\ buf = <<"%">> \o FmtNat(Cardinality(InsertedKeys(inserts))) \o CRLF
                    \o EntryBytes(inserts, InsertedKeys(inserts))
           /\ \A other \in InsertSeqs :
                  FinalEntries(other) = FinalEntries(inserts)
                      => Encode(RespMap_build(other, [keys |-> <<>>, vals |-> <<>>])) = buf

\* A map into which b was inserted before a has been encoded.
C26_Witness ==
    /\ origin = "frames"
    /\ inserts = <<<< <<"b">>, IntegerF(7) >>, << <<"a">>, NullF >>>>
    /\ outs = <<>>
    /\ buf = <<"%", "2", CR, LF, "+", "a", CR, LF, "_", CR, LF,
               "+", "b", CR, LF, ":", "+", "7", CR, LF>>



\* The frame f is an Array, a Map or a Set.
IsAggregate(f) == f.t \in {"Array", "Map", "Set"} /\ ~f.null

\* C30: when the decode of a nested child of an Array, a Map or a Set
\* returns NotComplete or an error, the caller's buffer is left as it was
\* before the call, however many children were decoded before; once the
\* missing bytes are appended, the same call returns the whole aggregate.
C30_AggregateRestores ==
    /\ (outs # <<>> /\ before # <<>> /\ before[1] \in {"*", "%", "~"} /\ LastOut.r # "Ok"
           /\ (origin = "completed" => Len(outs) = 2))
          => buf = before
    /\ (origin = "completed" /\ IsAggregate(frames[1]) /\ Len(outs) = 2)
          => (outs[2] = [r |-> "Ok", f |-> frames[1]] /\ buf = <<>>)



\* ------------------------------------------------ claims: the stored values

\* The frame f is a request of n elements whose first is the bulk string verb.
IsRequest(f, verb, n) ==
    /\ f.t = "Array"
    /\ ~f.null
    /\ Len(f.items) = n
    /\ f.items[1] = BulkStringF(verb)

\* Request p of hist is the last SET before request n of the key that
\* request n, a GET, names.
SetBeforeGet(hist, p, n) ==
    /\ IsRequest(hist[n], GET, 2)
    /\ IsRequest(hist[p], SET, 3)
    /\ hist[p].items[2] = hist[n].items[2]
    /\ \A q \in (p + 1)..(n - 1) :
           ~(IsRequest(hist[q], SET, 3) /\ hist[q].items[2] = hist[n].items[2])

\* Request p of hist is the last HSET before request n of the key and field
\* that request n, an HGET, names.
HSetBeforeHGet(hist, p, n) ==
    /\ IsRequest(hist[n], HGET, 3)
    /\ IsRequest(hist[p], HSET, 4)
    /\ hist[p].items[2] = hist[n].items[2]
    /\ hist[p].items[3] = hist[n].items[3]
    /\ \A q \in (p + 1)..(n - 1) :
           ~(/\ IsRequest(hist[q], HSET, 4)
             /\ hist[q].items[2] = hist[n].items[2]
             /\ hist[q].items[3] = hist[n].items[3])

\* The reply r gives back the value v as it was sent: the same frame, a null
\* BulkString as $-1 and a null Array as *-1, neither as the unitary Null.
SameVariant(v, r) ==
    /\ r = v
    /\ v = NullBulkStringF => Encode(r) = <<"$", "-", "1", CR, LF>>
    /\ v = NullArrayF => Encode(r) = <<"*", "-", "1", CR, LF>>
    /\ v \in {NullBulkStringF, NullArrayF} => r # NullF

\* C24: a value stored by SET or HSET is returned by a later GET or HGET as
\* a frame equal to the one sent, whatever its variant: a stored null
\* BulkString is replied as $-1, a stored null Array as *-1, and neither is
\* turned into the unitary Null.
C24_ValueVariantKept ==
    SingleConn =>
        \A n \in 1..Answered(1) : \A p \in 1..(n - 1) :
            /\ SetBeforeGet(decoded[1], p, n)
                  => SameVariant(decoded[1][p].items[3], replies[1][n])
            /\ HSetBeforeHGet(decoded[1], p, n)
                  => SameVariant(decoded[1][p].items[4], replies[1][n])

\* A null Array was stored under k and GET k was answered with it.
C24_Witness ==
    /\ SingleConn
    /\ Len(decoded[1]) = 2
    /\ Len(replies[1]) = 2
    /\ SetBeforeGet(decoded[1], 1, 2)
    /\ decoded[1][1].items[3] = NullArrayF
    /\ map[<<"k">>] = NullArrayF
    /\ replies[1] = <<RESP_OK, NullArrayF>>



\* ------------------------------------------- claims: entries are not removed

\* With this step connection c completes the SET of value v under key k.
SetsNow(c, k, v) ==
    /\ pc[c] = "handle"
    /\ pc'[c] = "next"
    /\ IsRequest(request[c], SET, 3)
    /\ request[c].items[2] = BulkStringF(k)
    /\ request[c].items[3] = v

\* With this step connection c completes the HSET of value v under field f
\* of key k.
HSetsNow(c, k, f, v) ==
    /\ pc[c] = "handle"
    /\ pc'[c] = "next"
    /\ IsRequest(request[c], HSET, 4)
    /\ request[c].items[2] = BulkStringF(k)
    /\ request[c].items[3] = BulkStringF(f)
    /\ request[c].items[4] = v

\* C28: entries are never removed.  A key readable through GET, a field
\* readable through HGET and a member found by SISMEMBER stay so after every
\* later step of every connection, and a stored value changes only in a step
\* that completes a SET of that key, or an HSET of that key and field.
C28_EntriesStay ==
    [][/\ \A k \in DOMAIN map :
             Backend_get(map, k).some
                 => /\ Backend_get(map', k).some
                    /\ Backend_get(map', k).v # Backend_get(map, k).v
                          => \E c \in Conns : SetsNow(c, k, Backend_get(map', k).v)
       /\ \A k \in DOMAIN hmap : \A f \in DOMAIN hmap[k] :
             Backend_hget(hmap, k, f).some
                 => /\ Backend_hget(hmap', k, f).some
                    /\ Backend_hget(hmap', k, f).v # Backend_hget(hmap, k, f).v
                          => \E c \in Conns : HSetsNow(c, k, f, Backend_hget(hmap', k, f).v)
       /\ \A k \in DOMAIN hset : \A x \in hset[k] :
             Backend_sismember(hset, k, x) => Backend_sismember(hset', k, x)]_vars

\* Two connections have SET k one after the other and a member has been
\* added to s a second time: the key holds the later value and the member
\* is still there.
C28_Witness ==
    /\ pc[1] = "next" /\ pc[2] = "next"
    /\ replies[1] = <<RESP_OK>>
    /\ replies[2] = <<RESP_OK, IntegerF(1)>>
    /\ map = Put(EmptyMap, <<"k">>, BulkStringF(<<"w">>))
    /\ <<"s">> \in DOMAIN hset
    /\ hset[<<"s">>] = {<<"b">>}



\* ------------------------------------------------ claims: the simple frames

\* C39: every SimpleString and SimpleError frame the decoder produces has a
\* payload with no CR byte and no LF byte, whatever the input buffer, a lone
\* CR or a lone LF before the terminating CR LF included.
C39_SimplePayloadClean ==
    \A j \in 1..Len(outs) :
        (outs[j].r = "Ok" /\ outs[j].f.t \in {"SimpleString", "Error"})
            => \A i \in 1..Len(outs[j].f.s) : outs[j].f.s[i] \notin {CR, LF}



\* ------------------------------------------------------- claims: progress

\* C31: every request whose bytes have all arrived is eventually answered,
\* or its connection is closed: no request, not even one that can never
\* become a complete frame, leaves the connection waiting forever.
C31_EveryRequestAnswered ==
    \A n \in 1..MaxParse :
        (nsent[1] >= n) ~> (Len(replies[1]) >= n \/ pc[1] = "done")



\* ------------------------------------------- claims: the rejected requests

\* The frame f is a request the server must reject: no request at all, a
\* wrong number of arguments, or a string argument that is not a non-null
\* BulkString of UTF-8 bytes.
MustReject(f) ==
    \/ Malformed(f)
    \/ WrongArity(f)
    \/ /\ Known(f)
       /\ ArityOk(VerbOf(f), Len(f.items) - 1)
       /\ \E i \in StringPos(VerbOf(f), Len(f.items) - 1) :
             ~(IsBulkSome(f.items[i + 1]) /\ ValidUtf8(f.items[i + 1].s))

\* The last frame connection c has taken from its peer.
LastDecoded(c) == decoded[c][Len(decoded[c])]

\* C32: a rejected request (InvalidCommand, InvalidArgument, or an argument
\* that is not UTF-8) leaves all three stores as they were.  With a single
\* connection such a request is answered with a SimpleError, and no step
\* taken for it changes a store: a write of several arguments, SADD k m1
\* <invalid> or HSET with a bad field, applies none of them.
C32_RejectedChangesNothing ==
    /\ [](SingleConn =>
            \A n \in 1..Answered(1) :
                MustReject(decoded[1][n]) => replies[1][n].t = "Error")
    /\ [][(/\ SingleConn
           /\ pc[1] \in {"handle", "exec"}
           /\ decoded[1] # <<>>
           /\ MustReject(LastDecoded(1)))
             => UNCHANGED <<map, hmap, hset>>]_vars

\* SADD k a was served, then SADD k c <integer> was rejected: the set holds
\* a alone.
C32_Witness ==
    /\ SingleConn
    /\ pc[1] = "next"
    /\ Len(decoded[1]) = 2
    /\ decoded[1][2] = ArrayF(<<BulkStringF(SADD), BulkStringF(<<"k">>),
                                BulkStringF(<<"c">>), IntegerF(7)>>)
    /\ Len(replies[1]) = 2
    /\ replies[1][1] = IntegerF(1)
    /\ replies[1][2].t = "Error"
    /\ <<"k">> \in DOMAIN hset
    /\ hset[<<"k">>] = {<<"a">>}



\* ------------------------------------------------ claims: the read commands

\* The verbs of the commands that only read.
ReadVerbs ==
    { <<"g", "e", "t">>, <<"h", "g", "e", "t">>, <<"h", "m", "g", "e", "t">>,
      <<"h", "g", "e", "t", "a", "l", "l">>,
      <<"s", "i", "s", "m", "e", "m", "b", "e", "r">>, <<"e", "c", "h", "o">> }

\* The frame f asks for a command that only reads, or has an unknown verb.
ReadOnly(f) == Unknown(f) \/ (Known(f) /\ VerbOf(f) \in ReadVerbs)

\* C33: GET, HGET, HMGET, HGETALL, SISMEMBER, ECHO and the unrecognized
\* verbs never change the backend: no step taken for one of them changes a
\* key, a field or a member of any of the three stores, and a read of a
\* missing key does not create the key.
C33_ReadsChangeNothing ==
    [][(/\ SingleConn
        /\ pc[1] \in {"handle", "exec"}
        /\ decoded[1] # <<>>
        /\ ReadOnly(LastDecoded(1)))
          => /\ UNCHANGED <<map, hmap, hset>>
             /\ DOMAIN map' = DOMAIN map
             /\ DOMAIN hmap' = DOMAIN hmap
             /\ DOMAIN hset' = DOMAIN hset]_vars

\* SISMEMBER and HGETALL of a key that was never written have been
\* answered, and no store holds a key.
C33_Witness ==
    /\ SingleConn
    /\ pc[1] = "next"
    /\ Len(decoded[1]) = 2
    /\ Known(decoded[1][1])
    /\ Known(decoded[1][2])
    /\ VerbOf(decoded[1][1]) = <<"s", "i", "s", "m", "e", "m", "b", "e", "r">>
    /\ VerbOf(decoded[1][2]) = <<"h", "g", "e", "t", "a", "l", "l">>
    /\ replies[1] = <<IntegerF(0), ArrayF(<<>>)>>
    /\ DOMAIN map = {}
    /\ DOMAIN hmap = {}
    /\ DOMAIN hset = {}



\* ------------------------------------------ claims: the atomicity of sadd

\* The sum of the integers of the replies rs.
RECURSIVE ReplySum(_)
ReplySum(rs) == IF rs = <<>> THEN 0 ELSE Head(rs).i + ReplySum(Tail(rs))

\* What connection c has counted as new in the SADD it is executing.
Counting(c) == IF pc[c] = "exec" /\ cmd[c].op = "SAdd" THEN added[c] ELSE 0

\* What the connections 1..c have counted as new, in their replies and in
\* the SADDs they are executing.
RECURSIVE CountedTo(_)
CountedTo(c) == IF c = 0 THEN 0 ELSE ReplySum(replies[c]) + Counting(c) + CountedTo(c - 1)

\* The number of members of the set under key.
SetSize(key) == IF key \in DOMAIN hset THEN Cardinality(hset[key]) ELSE 0

\* C34: the membership test and the insertion of sadd are one atomic step
\* per key.  When several connections SADD the same member to the same key
\* at the same time exactly one call counts it as new: in every
\* interleaving what the SADDs of a key have counted, the sum of their
\* replies once they are answered, is the number of members of its set.
C34_SAddCountsOnce ==
    /\ \A c \in Conns : \A n \in 1..Len(replies[c]) : replies[c][n].t = "Integer"
    /\ CountedTo(NumConns) = SetSize(<<"s">>)
    /\ (\A c \in Conns : pc[c] # "exec")
          => SumTo([c \in Conns |-> ReplySum(replies[c])], NumConns) = SetSize(<<"s">>)

\* Three connections have added a at the same time: one was answered 1, the
\* others 0.
C34_Witness ==
    /\ \A c \in 1..3 : pc[c] = "next" /\ Len(replies[c]) = 1 /\ Len(decoded[c]) = 1
    /\ \A c \in 1..3 : decoded[c][1] = ArrayF(<<BulkStringF(SADD), BulkStringF(<<"s">>),
                                                 BulkStringF(<<"a">>)>>)
    /\ replies[2] = <<IntegerF(1)>>
    /\ replies[1] = <<IntegerF(0)>>
    /\ hset[<<"s">>] = {<<"a">>}



\* ------------------------------------------- claims: the snapshot of HMGET

\* C36: the reply of an HMGET is a snapshot of the hash: while connection 1
\* alone writes key k with HSETs, the values an HMGET of k returns on
\* another connection are those the requested fields had after some number
\* of connection 1's HSETs, all at that one instant; after HSET k f and then
\* HSET k g, never f missing and g present.
C36_HMGetSnapshot ==
    \A c \in Conns \ {1} : \A n \in 1..Answered(c) :
        LET p == Command_try_from(decoded[c][n])
            r == replies[c][n]
        IN  (p.ok /\ p.cmd.op = "HMGet")
                => /\ r.t = "Array"
                   /\ Len(r.items) = Len(p.cmd.list)
                   /\ \E i \in 0..Len(decoded[1]) :
                         \A j \in 1..Len(p.cmd.list) :
                             r.items[j] = LastHSet(decoded[1], i, p.cmd.key, p.cmd.list[j])


\* ------------------------------------- claims: writes seen by later reads

\* The numbers of connection 1's requests after which the store can be read
\* now: all that are answered, and any of those decoded since.
Instants == Answered(1)..Len(decoded[1])

\* The reply that connection c sends in this step.
Sent(c) == replies'[c][Len(replies'[c])]

\* C35: a write is visible to every later read on any connection. While
\* connection 1 alone writes, every value that a GET, HGET, HMGET, HGETALL
\* or SISMEMBER of another connection reads from the store is the one the
\* key had after all of connection 1's writes answered by then (of which
\* those answered before the read was decoded are a part) or after a later
\* one, never an older one.
C35_WritesVisible ==
    [][\A c \in Conns \ {1} :
          /\ (pc[c] = "handle" /\ Len(replies'[c]) = Len(replies[c]) + 1)
                => LET p == Command_try_from(request[c])
                   IN  /\ p.ok
                       /\ p.cmd.op = "Get"
                             => \E i \in Instants :
                                   Sent(c) = LastSet(decoded[1], i, p.cmd.key)
                       /\ p.cmd.op = "HGet"
                             => \E i \in Instants :
                                   Sent(c) = LastHSet(decoded[1], i, p.cmd.key, p.cmd.field)
                       /\ p.cmd.op = "HGetAll"
                             => \E i \in Instants :
                                   Pairs(Sent(c)) = HashAfter(decoded[1], i, p.cmd.key)
                       /\ (/\ p.cmd.op = "SIsMember"
                           /\ p.cmd.field \in MembersBefore(decoded[1], Answered(1), p.cmd.key))
                             => Sent(c) = IntegerF(1)
          /\ (/\ pc[c] = "exec"
              /\ cmd[c].op = "HMGet"
              /\ (ret'[c] # ret[c] \/ replies'[c] # replies[c]))
                => LET n    == Len(ret[c]) + 1
                       read == IF Len(ret'[c]) = n THEN ret'[c][n] ELSE Sent(c).items[n]
                   IN  \E i \in Instants :
                          read = LastHSet(decoded[1], i, cmd[c].key, cmd[c].list[n])
          /\ (/\ pc[c] = "exec"
              /\ cmd[c].op = "HGetAll"
              /\ Len(replies'[c]) = Len(replies[c]) + 1)
                => \E i \in Instants :
                      Pairs(Sent(c)) = HashAfter(decoded[1], i, cmd[c].key)
      ]_vars

\* Connection 1 has been answered for SET k v and SET k w, and a GET of k
\* on connection 2 and an HMGET on connection 3 have been answered since.
C35_Witness ==
    /\ Len(decoded[1]) = 2
    /\ decoded[1][1] = ArrayF(<<BulkStringF(SET), BulkStringF(<<"k">>), BulkStringF(<<"v">>)>>)
    /\ decoded[1][2] = ArrayF(<<BulkStringF(SET), BulkStringF(<<"k">>), BulkStringF(<<"w">>)>>)
    /\ replies[1] = <<RESP_OK, RESP_OK>>
    /\ Len(decoded[2]) = 1
    /\ decoded[2][1] = ArrayF(<<BulkStringF(GET), BulkStringF(<<"k">>)>>)
    /\ replies[2] = <<BulkStringF(<<"w">>)>>


\* ------------------------------------- claims: connections are independent

\* In this step the decoder of connection c reports an error, a request of
\* c is rejected, or the task of c ends.
Fails(c) ==
    \/ ~has_errored[c] /\ has_errored'[c]
    \/ pc[c] = "handle" /\ ~Command_try_from(request[c]).ok /\ pc'[c] = "next"
    \/ pc[c] # "done" /\ pc'[c] = "done"

\* Everything the task of connection d holds and has sent or received.
TaskOf(d) ==
    <<pc[d], sock[d], peerClosed[d], rbuf[d], is_readable[d], eof[d], has_errored[d],
      request[d], cmd[d], ret[d], decoded[d], replies[d]>>

\* C37: connections are independent. A step in which one connection's
\* decoder reports an error, its request is rejected or its task ends
\* changes nothing of any other connection (its position, its buffers, the
\* replies sent to it) and nothing in the backend; and whatever has
\* happened on the accepted connections, a connection not yet accepted can
\* be accepted.
C37_ConnectionsIndependent ==
    /\ [](\A d \in Conns : pc[d] = "none" => ENABLED Accept(d))
    /\ [][\A c \in Conns :
            Fails(c) => /\ UNCHANGED backendVars
                        /\ \A d \in Conns \ {c} : TaskOf(d)' = TaskOf(d)]_vars

\* Connection 1 has ended after a rejected request and a framing error;
\* connection 2 has been served a SET, and connection 3 is still to be
\* accepted.
C37_Witness ==
    /\ pc[1] = "done"
    /\ Errored(1)
    /\ Len(replies[1]) = 2
    /\ replies[1][1].t = "Error"
    /\ replies[2] = <<RESP_OK>>
    /\ <<"k">> \in DOMAIN map
    /\ pc[3] = "none"


\* --------------------------------------- claims: the peer closes its side

\* The peer of connection c has closed its side, the task has read all it
\* wrote, holds no byte of it and is waiting for the next frame.
Drained(c) == pc[c] = "next" /\ peerClosed[c] /\ sock[c] = <<>> /\ rbuf[c] = <<>>

\* C38: when the peer has closed its side and no byte is buffered, the task
\* of the connection ends; from then on no frame is written and no store
\* is changed, and when it has ended every key holds the value of the last
\* SET that was answered.
C38_CloseEndsTask ==
    /\ Drained(1) ~> pc[1] = "done"
    /\ [][(Drained(1) \/ pc[1] = "done")
            => /\ UNCHANGED <<replies, backendVars>>
               /\ Drained(1)' \/ pc'[1] = "done"]_vars
    /\ [](pc[1] = "done"
            => \A k \in KeyNames :
                  OrNull(Backend_get(map, k)) = LastSet(decoded[1], Answered(1), k))

\* The peer was answered for SET k v and closed its side; the task has
\* ended with the value in the store and nothing sent after the reply.
C38_Witness ==
    /\ pc[1] = "done"
    /\ peerClosed[1]
    /\ rbuf[1] = <<>>
    /\ Len(decoded[1]) = 1
    /\ replies[1] = <<RESP_OK>>
    /\ <<"k">> \in DOMAIN map
    /\ map[<<"k">>] = BulkStringF(<<"v">>)


====
